---- MODULE Spec2Model ----
(***************************************************************************)
(* A model of mcp-subagents: the session memory store with its per-key     *)
(* async mutex (memory/localMemoryStore.ts), the agent orchestrator        *)
(* (agents/orchestrator.ts) and the tool registry (mcp/toolRegistry.ts).   *)
(*                                                                         *)
(* Node runs one JavaScript turn at a time, so an action of this model is  *)
(* the code between two awaits: a turn runs to completion with no other    *)
(* turn interleaved, and turns of different async calls interleave freely. *)
(***************************************************************************)
EXTENDS Integers, Sequences, FiniteSets, TLC

\* ------------------------------------------------------------------ bounds

\* Appends issued over one behaviour of the store (entry ids are 1..MaxIssued).
MaxIssued == 3
\* The store's byte ceiling (maxLogBytes), in the model's size units.
MaxLogBytes == 21
\* Serialized size of the truncation marker entry, in the model's size units.
MarkerSize == 3

\* The orchestrator's maxAgentsPerSession.
MaxAgents == 3
\* The largest max_depth a request may ask for (the server accepts 1..8).
MaxDepthLimit == 3
\* The largest max_delegations a request may ask for (the server accepts 1..10).
MaxFanOut == 2
\* The longest alias of a tool (64 characters in the code), in the model's units.
MaxAliasLength == 5
\* The limit of ensureUniqueName's counter (1000 in the code).
CounterLimit == 2
\* The byte ceiling of the store the orchestrator logs to, in the model's units.
OrchLogBytes == 200
\* Serialized size of an entry the orchestrator logs, in the model's units.
OrchEntrySize == 4

\* The largest toolCallRetries the client manager is constructed with.
MaxToolCallRetries == 2
\* A base retry delay and a timeout the client manager is constructed with, in ms.
RetryDelayMs == 2
TimeoutMs == 5

\* applyFeedback calls issued over one behaviour of the feedback store.
MaxFeedback == 3

\* The async callers of the store.
Callers == {1, 2, 3}
\* Serialized sizes an appended entry may have; the last exceeds the ceiling alone.
EntrySizes == {2, 5, 30}
\* The one entry size of the behaviours that explore the callers' interleavings.
UniformSizes == {4}

\* Session ids are strings, modelled as sequences of characters.
IdA == <<"a">>
IdB == <<"b">>
\* An id that differs from IdA only in what normalizeSessionId removes.
IdAlias == <<" ", "a">>
IdUniverse == {IdA, IdB, IdAlias}

\* --------------------------------------------------------------- variables

VARIABLES
    ids,        \* the session ids the callers use in this behaviour
    sizes,      \* the serialized sizes of the entries appended in this behaviour
    maxLogBytes,\* LocalHybridMemoryStore.maxLogBytes
    held,       \* AsyncMutex.held
    queues,     \* AsyncMutex.queues: key -> queued resolvers (by caller), FIFO
    files,      \* the session files on disk: path -> content
    cpc,        \* caller -> where its store call stands
    cop,        \* caller -> the store call it is making
    cbuf,       \* caller -> append: the content it is about to write; read: its result
    nextId,     \* the id of the next entry issued
    issued,     \* ghost: key -> entry ids in the order their append calls were issued
    written,    \* ghost: path -> ids of the entries written since the last clear, in order
    evicted,    \* ghost: path -> an append evicted entries since the last clear
    sideFiles,  \* path -> the contents kept beside it as <path>.corrupted.<timestamp>
    overwritten,\* ghost: path -> the contents that were no array when writeFile replaced them
    stranded,   \* ghost: the ids of the appends that were queued behind a body that failed
    slots,      \* the runs the handlers may have in flight in this behaviour
    requests,   \* the requests the handlers pass to run in this behaviour
    answers,    \* the raw answers the backend gives in this behaviour
    reformats,  \* the answers it gives to the reformatting prompt
    sessionAgentCounts, \* AgentOrchestrator.sessionAgentCounts (no key = 0)
    admitted,   \* ghost: session -> steps admitted since the last resetSessionAgentCount
    rstatus,    \* run -> "idle", "running", "returned", "failed" (it threw) or "hung"
    rsid,       \* run -> the session id of its request
    rstack,     \* run -> the frames of its nested run calls, the root first
    rresult,    \* run -> the Step Result it returned
    clearPc,    \* the session_clear handler: "idle" or "unlinked" (memory.clear done)
    clearSid,   \* the session id the session_clear handler is clearing
    ghost,      \* ghost: what has been observed of the handlers (see InitGhost)
    toolsByCanonical, \* ToolRegistry.toolsByCanonical: the registered tools, one per name
    toolsByOpenAiName,\* ToolRegistry.toolsByOpenAiName: alias -> the tool's canonical name
    catalog,          \* the descriptors the last getToolsCatalog call returned
    accessOverrides,  \* ToolRegistry.accessOverrides (a list of patterns as a set)
    manager,          \* the McpClientManager, its callTool call and the refresh using it
    feedback,         \* the ToolFeedbackStore, its file and its applyFeedback calls
    execution         \* the AgenticExecutor with its limits, and its execute call

sideVars == <<sideFiles, overwritten, stranded>>

storeVars == <<ids, sizes, maxLogBytes, held, queues, files, cpc, cop, cbuf, nextId,
               issued, written, evicted, sideVars>>

orchConfig == <<slots, requests, answers, reformats>>

orchVars == <<orchConfig, sessionAgentCounts, admitted, rstatus, rsid, rstack,
              rresult, clearPc, clearSid, ghost>>

regVars == <<toolsByCanonical, toolsByOpenAiName, catalog, accessOverrides, manager, feedback>>

execVars == <<execution>>

vars == <<storeVars, orchVars, regVars, execVars>>

\* ------------------------------------------------------------ session ids

WhiteSpace == {" "}
SafeChars == {"a", "b", "d", "e", "f", "l", "t", "u", "_", "-"}
DefaultId == <<"d", "e", "f", "a", "u", "l", "t">>

RECURSIVE TrimLeft(_)
TrimLeft(s) ==
    IF s # <<>> /\ Head(s) \in WhiteSpace THEN TrimLeft(Tail(s)) ELSE s

RECURSIVE TrimRight(_)
TrimRight(s) ==
    IF s # <<>> /\ s[Len(s)] \in WhiteSpace
    THEN TrimRight(SubSeq(s, 1, Len(s) - 1)) ELSE s

\* normalizeSessionId: trim, replace every char outside [a-zA-Z0-9_-] by "_",
\* and fall back to 'default' when nothing is left.
normalizeSessionId(sessionId) ==
    LET trimmed == TrimRight(TrimLeft(sessionId))
        normalized == [i \in 1..Len(trimmed) |->
                         IF trimmed[i] \in SafeChars THEN trimmed[i] ELSE "_"]
    IN IF Len(normalized) > 0 THEN normalized ELSE DefaultId

\* sessionPath: the file of a session id (base directory and ".json" left out).
sessionPath(sessionId) == normalizeSessionId(sessionId)

Paths == {sessionPath(i) : i \in IdUniverse}

\* ---------------------------------------------------------------- entries

\* A SessionLogEntry: its identity, its serialized size, and whether it is a
\* truncation marker (meta.type = 'truncation_marker'); a marker names the entry
\* whose removal created it.
LogEntry(id, size) == [id |-> id, size |-> size, marker |-> FALSE, removed |-> 0]
TruncationMarker(removedEntry) ==
    [id |-> 0, size |-> MarkerSize, marker |-> TRUE, removed |-> removedEntry.id]

RECURSIVE SumSizes(_)
SumSizes(log) == IF log = <<>> THEN 0 ELSE Head(log).size + SumSizes(Tail(log))

\* Buffer.byteLength(JSON.stringify(existing, null, 2)): "[]" for the empty list,
\* else "[\n" + the entries joined by ",\n" + "\n]".
ByteLength(log) ==
    IF log = <<>> THEN 2 ELSE 4 + SumSizes(log) + 2 * (Len(log) - 1)

\* A file: absent (ENOENT), a JSON array of entries, text that JSON.parse
\* rejects, or JSON that is not an array.
NoFile == [kind |-> "absent", log |-> <<>>]
ArrayFile(log) == [kind |-> "array", log |-> log]
MalformedFile == [kind |-> "malformed", log |-> <<>>]
NonArrayFile == [kind |-> "value", log |-> <<>>]

\* readInternal: the entries of the file, the empty list when it is absent,
\* malformed or no array.
readInternal(file) == IF file.kind = "array" THEN file.log ELSE <<>>

\* readInternal's catch of a SyntaxError: the file is renamed to a side name.
\* What readInternal leaves at the path, and what it has added beside it.
LeftByRead(file) == IF file.kind = "malformed" THEN NoFile ELSE file
RenamedByRead(file) == IF file.kind = "malformed" THEN {file} ELSE {}

\* EvictPass with the marker pushed at the end of the list instead of the front.
EvictPassMarkerLast(existing) ==
    LET removed == Head(existing)
        rest == Tail(existing)
    IN IF ~rest[1].marker THEN rest \o <<TruncationMarker(removed)>> ELSE rest

\* One pass of the eviction loop: drop the oldest entry, and put a truncation
\* marker in front unless the entry now first is one.
EvictPass(existing) ==
    LET removed == Head(existing)
        rest == Tail(existing)
    IN IF ~rest[1].marker THEN <<TruncationMarker(removed)>> \o rest ELSE rest

\* EvictionNeeded comparing the number of entries, not their bytes, to the ceiling.
EvictionNeededByCount(existing, ceiling) ==
    Len(existing) > ceiling /\ Len(existing) > 1

\* while (byteLength(content) > maxLogBytes && existing.length > 1)
EvictionNeeded(existing, ceiling) ==
    ByteLength(existing) > ceiling /\ Len(existing) > 1

\* The eviction loop run to its end. A pass that leaves the list as long as it
\* was has replaced the first entry by a marker; if the list is still over the
\* ceiling, every later pass replaces that marker by an equal one and the loop
\* never ends (hang): the loop is synchronous, so nothing else ever runs.
RECURSIVE EvictLoop(_, _)
EvictLoop(existing, ceiling) ==
    IF ~EvictionNeeded(existing, ceiling)
    THEN [hang |-> FALSE, log |-> existing]
    ELSE LET next == EvictPass(existing)
         IN IF Len(next) = Len(existing) /\ existing[1].marker
            THEN [hang |-> TRUE, log |-> existing]
            ELSE EvictLoop(next, ceiling)

\* ------------------------------------------------------------- the store

NoOp == [op |-> "none", key |-> IdA, entry |-> LogEntry(0, 0)]

\* The run calls in progress at once (planner and subagent tool handlers).
Runs == {1, 2}

NoResult == [role |-> "none"]

\* No synchronous loop is spinning: the event loop still runs turns.
Running ==
    /\ \A c \in Callers : cpc[c] # "hung"
    /\ \A r \in Runs : rstatus[r] # "hung"

\* Callers are interchangeable: a new call takes the lowest caller not in a call.
FreeCaller(c) ==
    /\ cpc[c] = "idle"
    /\ \A d \in Callers : d < c => cpc[d] # "idle"

\* The orchestrator after construction, with no request in progress.
\* types.ts: AgentRole
Roles == {"planner", "code", "analysis", "research", "review", "test"}

\* ToolRegistry after construction: { roleLevels: {}, allow: {}, deny: {} }; a
\* role without a level override is "unset", one without patterns has none.
NoOverrides ==
    [roleLevels |-> [role \in Roles |-> "unset"],
     allow |-> [role \in Roles |-> {}],
     deny |-> [role \in Roles |-> {}]]

\* The MCP servers the client manager is connected to.
Servers == {"smart-io", "brave"}

\* No callTool call under way.
\*   pc: "idle", "operation" (awaiting operation()), "delay" (awaiting delay),
\*       "returned" or "threw"
\*   attempt: callWithRetry's attempt
\*   attempts: the calls of operation() made
\*   stuck: the request of the attempt under way never completes
\*   timer: withTimeout has set a timer for the attempt under way
\*   errors: the messages of the errors callWithRetry has caught, in order
\*   waits: for each retry, the ms awaited before it (0 when nothing was awaited)
\*   error: the message of the error thrown to the caller
NoCall ==
    [pc |-> "idle", attempt |-> 0, attempts |-> 0, stuck |-> FALSE, timer |-> FALSE,
     errors |-> <<>>, waits |-> <<>>, error |-> "none"]

\* No refresh under way.
\*   pc: "idle", "listing" (refreshTools awaiting listAllTools of Head(todo)) or
\*       "done" (refresh has rebuilt the registry's maps)
\*   todo: the servers refreshTools has yet to list, the one being listed first
\*   stuck, timer: as for a callTool attempt, of the listTools request under way
\*   listed: server -> "ok" or "failed" by how its listing ended in this refresh
\*   fresh: server -> the tools its listing returned in this refresh
NoRefresh ==
    [pc |-> "idle", todo |-> <<>>, stuck |-> FALSE, timer |-> FALSE,
     listed |-> [server \in Servers |-> "none"],
     fresh |-> [server \in Servers |-> {}]]

\* No tool invoked through ToolRegistry.execute yet.
\*   role: the role whose execute call made the invocation
\*   name: the canonical name handed to callTool
\*   visible: whether a tool of that name was among getToolsForRole(role) then
NoInvocation == [role |-> "none", name |-> <<>>, visible |-> TRUE]

\* new McpClientManager(options) with every server connected and no tool listed
\* (tools: server -> server.tools; invoked: ghost, the last tool invocation).
McpClientManager(options) ==
    [toolCallTimeoutMs |-> options.toolCallTimeoutMs,
     listToolsTimeoutMs |-> options.listToolsTimeoutMs,
     toolCallRetries |-> IF options.toolCallRetries > 0 THEN options.toolCallRetries ELSE 0,
     toolCallRetryDelayMs |->
         IF options.toolCallRetryDelayMs > 0 THEN options.toolCallRetryDelayMs ELSE 0,
     tools |-> [server \in Servers |-> {}],
     call |-> NoCall,
     refresh |-> NoRefresh,
     invoked |-> NoInvocation]

\* Options with timeouts set, one retry and a retry delay.
DefaultOptions ==
    [toolCallTimeoutMs |-> TimeoutMs, listToolsTimeoutMs |-> TimeoutMs,
     toolCallRetries |-> 1, toolCallRetryDelayMs |-> RetryDelayMs]

\* The async callers of the feedback store.
FeedbackCallers == {1, 2}

\* A ToolFeedbackState; the feedback file holds one, or is absent (ENOENT).
FeedbackState(overrides, history) == [overrides |-> overrides, history |-> history]
NoFeedbackFile == [kind |-> "absent", state |-> FeedbackState(NoOverrides, <<>>)]
FeedbackFile(state) == [kind |-> "state", state |-> state]

\* A ToolFeedbackInput; level "unset" is an input without level.
FeedbackInput(role, toolName, action, level) ==
    [role |-> role, toolName |-> toolName, action |-> action, level |-> level]

\* No applyFeedback call under way.
\*   pc: "idle", "queued" (fn chained to the lock's promise), "writing" (awaiting
\*       writeInternal) or "returned"
\*   state: the state fn has read and changed
NoFeedbackCall ==
    [pc |-> "idle", input |-> FeedbackInput("none", <<>>, "none", "unset"),
     state |-> FeedbackState(NoOverrides, <<>>)]

\* new ToolFeedbackStore(filePath) over a data directory without the file.
\*   chain: the callers whose fn AsyncLock.queue has yet to settle, in order
\*   issued: ghost, the inputs in the order applyFeedback was called with them
\*   clock: the time new Date() gives
ToolFeedbackStore ==
    [file |-> NoFeedbackFile,
     chain |-> <<>>,
     calls |-> [c \in FeedbackCallers |-> NoFeedbackCall],
     issued |-> <<>>,
     clock |-> 1]

\* The registry of a server that has discovered no tool and read an empty
\* feedback file.
InitRegistry ==
    /\ toolsByCanonical = {}
    /\ toolsByOpenAiName = {}
    /\ catalog = {}
    /\ accessOverrides = NoOverrides
    /\ manager = McpClientManager(DefaultOptions)
    /\ feedback = ToolFeedbackStore

\* No result of execute.
NoFinalContent == [kind |-> "none", blank |-> TRUE, summary |-> "none", notes |-> 0,
     delegations |-> 0]

NoExecutionResult == [content |-> "none", iterations |-> 0, finalContent |-> NoFinalContent]

\* No synthesis follow-up made.
NoSynthesis == [tools |-> "none", toolChoice |-> "unset"]

\* The AgenticExecutor as constructed, with no execute call under way.
\*   pc: "idle", "backend" (awaiting llm in the loop), "tool" (awaiting
\*       toolRegistry.execute), "synthesis" (awaiting retrySynthesis), "done"
\*   responseFormat: options.responseFormat of the call, "unset" if not given
\*   lastContent: whether lastContent.trim() is non-empty
\*   produced: whether some answer of the loop had content that is not blank
\*   toolCallHistory: for each entry, whether the tool was run and whether the
\*       entry has its error set
\*   messages: the messages pushed after the system and the user message: an
\*       "assistant" message with tool calls, or a tool message by how its
\*       content begins, "Error:" or "result"
\*   batch: the bounded tool calls of this iteration yet to be handled, each
\*       "good" or "bad" by whether its arguments parse
\*   exhausted: the loop ended by its condition
\*   fed: the number of these messages handed to the last backend call
\*   bounded: the number of bounded tool calls of all iterations so far
\*   executed: the number of calls of toolRegistry.execute so far
\*   synthesis: the tools and the tool choice of the synthesis follow-up
\*   llmCalls, synthesisCalls, toolCalls: the backend calls made in the loop, the
\*       synthesis follow-ups made, the tool calls run in this iteration
\*   lastFresh: lastContent is the content of the answer to the last backend call
\*   recorded: the ids of the tool calls in the assistant messages, in order; the
\*       id of the k-th tool call of the answer to backend call t is <<t, k>>
\*   answered: the toolCallId of each tool message, in order
Executor(maxIterations, maxToolCallsPerIteration) ==
    [maxIterations |-> maxIterations,
     maxToolCallsPerIteration |-> maxToolCallsPerIteration,
     pc |-> "idle", responseFormat |-> "unset", iteration |-> 0,
     lastContent |-> FALSE, produced |-> FALSE,
     toolCallHistory |-> <<>>,
     messages |-> <<>>, fed |-> 0, bounded |-> 0, executed |-> 0,
     synthesis |-> NoSynthesis,
     batch |-> <<>>, exhausted |-> FALSE, result |-> NoExecutionResult,
     llmCalls |-> 0, synthesisCalls |-> 0, toolCalls |-> 0,
     lastFresh |-> FALSE, recorded |-> <<>>, answered |-> <<>>]

InitExecutor(iterationLimits, toolCallLimits) ==
    \E maxIterations \in iterationLimits, maxToolCallsPerIteration \in toolCallLimits :
        execution = Executor(maxIterations, maxToolCallsPerIteration)

\* Nothing observed yet.
\*   clearQuiet: no run has been in flight on clearSid since session_clear began
\*   cleared: the ids whose session_clear completed quietly, no run started since
\*   attempt: the run call the last step made, if it made one: whether it was
\*     rejected, and how many steps had been admitted and how many results
\*     produced on its session since the last reset when it was made
\*   produced: session -> results run has produced since the last reset
NoAttempt == [made |-> FALSE, rejected |-> FALSE, admitted |-> 0, produced |-> 0]

\* No step has raised.
NoError == [error |-> "none", depth |-> 0, pending |-> 0]

\* Of the last step that got its raw answer: where it came from, the role, and
\* what run found of the objective, the tools and the credentials.
NoAnswer ==
    [source |-> "none", role |-> "none", forceToolUse |-> FALSE,
     toolsAvailable |-> FALSE, canUseTools |-> FALSE]

InitGhost ==
    [clearQuiet |-> FALSE, cleared |-> {}, attempt |-> NoAttempt,
     produced |-> [k \in IdUniverse |-> 0],
     raised |-> [r \in Runs |-> NoError], thrown |-> [r \in Runs |-> "none"],
     obtained |-> NoAnswer]

InitOrchestrator(slotSet, requestSet, answerSet, reformatSet) ==
    /\ slots = slotSet
    /\ requests = requestSet
    /\ answers = answerSet
    /\ reformats = reformatSet
    /\ sessionAgentCounts = [k \in IdUniverse |-> 0]
    /\ admitted = [k \in IdUniverse |-> 0]
    /\ rstatus = [r \in Runs |-> "idle"]
    /\ rsid = [r \in Runs |-> IdA]
    /\ rstack = [r \in Runs |-> <<>>]
    /\ rresult = [r \in Runs |-> NoResult]
    /\ clearPc = "idle"
    /\ clearSid = IdA
    /\ ghost = InitGhost

\* The store after construction over a data directory holding the files found.
InitStoreFound(sessionIds, entrySizes, ceiling, found) ==
    /\ ids = sessionIds
    /\ sizes = entrySizes
    /\ maxLogBytes = ceiling
    /\ held = {}
    /\ queues = [k \in IdUniverse |-> <<>>]
    /\ files = found
    /\ sideFiles = [p \in Paths |-> {}]
    /\ overwritten = [p \in Paths |-> {}]
    /\ stranded = {}
    /\ cpc = [c \in Callers |-> "idle"]
    /\ cop = [c \in Callers |-> NoOp]
    /\ cbuf = [c \in Callers |-> <<>>]
    /\ nextId = 1
    /\ issued = [k \in IdUniverse |-> <<>>]
    /\ written = [p \in Paths |-> <<>>]
    /\ evicted = [p \in Paths |-> FALSE]

\* The store after construction over an empty data directory.
InitStoreWith(sessionIds, entrySizes, ceiling) ==
    InitStoreFound(sessionIds, entrySizes, ceiling, [p \in Paths |-> NoFile])

\* Callers of two sessions, entries of one size.
InitStore ==
    /\ InitStoreWith({IdA, IdB}, UniformSizes, MaxLogBytes)
    /\ InitOrchestrator({}, {}, {}, {})
    /\ InitRegistry
    /\ InitExecutor({1}, {1})

\* Callers of one session, entries of every size.
InitEvict ==
    /\ InitStoreWith({IdA}, EntrySizes, MaxLogBytes)
    /\ InitOrchestrator({}, {}, {}, {})
    /\ InitRegistry
    /\ InitExecutor({1}, {1})

\* WithLockEnter that never waits: the lock is taken whether held or not.
WithLockEnterNoWait(c, key) ==
    /\ held' = held \cup {key}
    /\ cpc' = [cpc EXCEPT ![c] = "body"]
    /\ UNCHANGED queues

\* WithLockEnter that puts a waiter at the front of the queue (unshift for push).
WithLockEnterLifo(c, key) ==
    IF key \in held
    THEN /\ queues' = [queues EXCEPT ![key] = <<c>> \o @]
         /\ cpc' = [cpc EXCEPT ![c] = "queued"]
         /\ UNCHANGED held
    ELSE /\ held' = held \cup {key}
         /\ cpc' = [cpc EXCEPT ![c] = "body"]
         /\ UNCHANGED queues

\* AsyncMutex.withLock up to its first await: wait in the key's queue when the
\* lock is held, else take the lock and start fn.
WithLockEnter(c, key) ==
    IF key \in held
    THEN /\ queues' = [queues EXCEPT ![key] = Append(@, c)]
         /\ cpc' = [cpc EXCEPT ![c] = "queued"]
         /\ UNCHANGED held
    ELSE /\ held' = held \cup {key}
         /\ cpc' = [cpc EXCEPT ![c] = "body"]
         /\ UNCHANGED queues

\* WithLockRelease that wakes the first waiter without marking the key held.
WithLockReleaseNoMark(c, key) ==
    IF Len(queues[key]) > 0
    THEN /\ queues' = [queues EXCEPT ![key] = Tail(@)]
         /\ held' = held \ {key}
         /\ cpc' = [cpc EXCEPT ![c] = "idle", ![Head(queues[key])] = "woken"]
    ELSE /\ held' = held \ {key}
         /\ cpc' = [cpc EXCEPT ![c] = "idle"]
         /\ UNCHANGED queues

\* AsyncMutex.withLock's finally block: release, and hand the lock to the first
\* waiter, marking the key held again before waking it.
WithLockRelease(c, key) ==
    IF Len(queues[key]) > 0
    THEN /\ queues' = [queues EXCEPT ![key] = Tail(@)]
         /\ held' = (held \ {key}) \cup {key}
         /\ cpc' = [cpc EXCEPT ![c] = "idle", ![Head(queues[key])] = "woken"]
    ELSE /\ held' = held \ {key}
         /\ cpc' = [cpc EXCEPT ![c] = "idle"]
         /\ UNCHANGED queues

\* append(sessionId, entry) is called.
CallAppend(c, key, size) ==
    /\ Running
    /\ FreeCaller(c)
    /\ nextId <= MaxIssued
    /\ cop' = [cop EXCEPT ![c] = [op |-> "append", key |-> key,
                                  entry |-> LogEntry(nextId, size)]]
    /\ nextId' = nextId + 1
    /\ issued' = [issued EXCEPT ![key] = Append(@, nextId)]
    /\ WithLockEnter(c, key)
    /\ UNCHANGED <<ids, sizes, maxLogBytes, sideVars, files, cbuf, written, evicted, orchVars, regVars, execVars>>

\* read(sessionId) is called.
CallRead(c, key) ==
    /\ Running
    /\ FreeCaller(c)
    /\ cop' = [cop EXCEPT ![c] = [op |-> "read", key |-> key, entry |-> NoOp.entry]]
    /\ WithLockEnter(c, key)
    /\ UNCHANGED <<ids, sizes, maxLogBytes, sideVars, files, cbuf, nextId, issued, written, evicted, orchVars, regVars, execVars>>

\* clear(sessionId) is called.
CallClear(c, key) ==
    /\ Running
    /\ FreeCaller(c)
    /\ cop' = [cop EXCEPT ![c] = [op |-> "clear", key |-> key, entry |-> NoOp.entry]]
    /\ WithLockEnter(c, key)
    /\ UNCHANGED <<ids, sizes, maxLogBytes, sideVars, files, cbuf, nextId, issued, written, evicted, orchVars, regVars, execVars>>

\* A woken waiter resumes after its await: it takes the lock and starts fn.
Resume(c) ==
    /\ Running
    /\ cpc[c] = "woken"
    /\ held' = held \cup {cop[c].key}
    /\ cpc' = [cpc EXCEPT ![c] = "body"]
    /\ UNCHANGED <<ids, sizes, maxLogBytes, sideVars, queues, files, cop, cbuf, nextId, issued,
                   written, evicted, orchVars, regVars, execVars>>

\* append's fn from the file read to the await of writeFile: read the log, push
\* the entry, run the eviction loop.
AppendBody(c) ==
    /\ Running
    /\ cpc[c] = "body"
    /\ cop[c].op = "append"
    /\ LET path == sessionPath(cop[c].key)
           existing == Append(readInternal(files[path]), cop[c].entry)
           result == EvictLoop(existing, maxLogBytes)
       IN /\ cpc' = [cpc EXCEPT ![c] = IF result.hang THEN "hung" ELSE "write"]
          /\ cbuf' = [cbuf EXCEPT ![c] = result.log]
          /\ evicted' = [evicted EXCEPT ![path] = @ \/ result.log # existing]
          /\ files' = [files EXCEPT ![path] = LeftByRead(@)]
          /\ sideFiles' = [sideFiles EXCEPT ![path] = @ \cup RenamedByRead(files[path])]
    /\ UNCHANGED <<ids, sizes, maxLogBytes, overwritten, stranded, held, queues, cop, nextId, issued,
                   written, orchVars, regVars, execVars>>

\* fs.writeFile completes.
WriteFile(c) ==
    /\ Running
    /\ cpc[c] = "write"
    /\ LET path == sessionPath(cop[c].key)
       IN /\ files' = [files EXCEPT ![path] = ArrayFile(cbuf[c])]
          /\ written' = [written EXCEPT ![path] = Append(@, cop[c].entry.id)]
          /\ overwritten' = [overwritten EXCEPT ![path] =
                               IF files[path].kind \in {"malformed", "value"}
                               THEN @ \cup {files[path]} ELSE @]
    /\ cpc' = [cpc EXCEPT ![c] = "release"]
    /\ UNCHANGED <<ids, sizes, maxLogBytes, sideFiles, stranded, held, queues, cop, cbuf, nextId,
                   issued, evicted, orchVars, regVars, execVars>>

\* read's fn: readInternal.
ReadBody(c) ==
    /\ Running
    /\ cpc[c] = "body"
    /\ cop[c].op = "read"
    /\ LET path == sessionPath(cop[c].key)
       IN /\ cbuf' = [cbuf EXCEPT ![c] = readInternal(files[path])]
          /\ files' = [files EXCEPT ![path] = LeftByRead(@)]
          /\ sideFiles' = [sideFiles EXCEPT ![path] = @ \cup RenamedByRead(files[path])]
    /\ cpc' = [cpc EXCEPT ![c] = "release"]
    /\ UNCHANGED <<ids, sizes, maxLogBytes, overwritten, stranded, held, queues, cop, nextId, issued,
                   written, evicted, orchVars, regVars, execVars>>

\* clear's fn: unlink the file (a missing file is not an error).
ClearBody(c) ==
    /\ Running
    /\ cpc[c] = "body"
    /\ cop[c].op = "clear"
    /\ LET path == sessionPath(cop[c].key)
       IN /\ files' = [files EXCEPT ![path] = NoFile]
          /\ written' = [written EXCEPT ![path] = <<>>]
          /\ evicted' = [evicted EXCEPT ![path] = FALSE]
    /\ cpc' = [cpc EXCEPT ![c] = "release"]
    /\ UNCHANGED <<ids, sizes, maxLogBytes, sideVars, held, queues, cop, cbuf, nextId, issued, orchVars, regVars, execVars>>

\* fn has settled: withLock's finally block runs and the call returns.
Release(c) ==
    /\ Running
    /\ cpc[c] = "release"
    /\ WithLockRelease(c, cop[c].key)
    /\ cop' = [cop EXCEPT ![c] = NoOp]
    /\ cbuf' = [cbuf EXCEPT ![c] = <<>>]
    /\ UNCHANGED <<ids, sizes, maxLogBytes, sideVars, files, nextId, issued, written, evicted, orchVars, regVars, execVars>>

NextStore ==
    \/ \E c \in Callers, k \in ids, size \in sizes : CallAppend(c, k, size)
    \/ \E c \in Callers, k \in ids : CallRead(c, k)
    \/ \E c \in Callers, k \in ids : CallClear(c, k)
    \/ \E c \in Callers : Resume(c)
    \/ \E c \in Callers : AppendBody(c)
    \/ \E c \in Callers : WriteFile(c)
    \/ \E c \in Callers : ReadBody(c)
    \/ \E c \in Callers : ClearBody(c)
    \/ \E c \in Callers : Release(c)

SpecStore == InitStore /\ [][NextStore]_vars

SpecEvict == InitEvict /\ [][NextStore]_vars

\* Callers of two session ids that have one file, entries of one size.
InitAlias ==
    /\ InitStoreWith({IdA, IdAlias}, UniformSizes, MaxLogBytes)
    /\ InitOrchestrator({}, {}, {}, {})
    /\ InitRegistry
    /\ InitExecutor({1}, {1})

\* Appends only.
NextAlias ==
    \/ \E c \in Callers, k \in ids, size \in sizes : CallAppend(c, k, size)
    \/ \E c \in Callers : Resume(c)
    \/ \E c \in Callers : AppendBody(c)
    \/ \E c \in Callers : WriteFile(c)
    \/ \E c \in Callers : Release(c)

SpecAlias == InitAlias /\ [][NextAlias]_vars

\* The steps the event loop takes for caller c once its operation is under way.
StoreStep(c) ==
    \/ Resume(c)
    \/ AppendBody(c)
    \/ WriteFile(c)
    \/ ReadBody(c)
    \/ ClearBody(c)
    \/ Release(c)

\* The file system and the event loop serve the operations on one session; an
\* operation on any other session may stay at one of its awaits for ever.
FairOn(key) == \A c \in Callers : WF_vars(StoreStep(c) /\ cop[c].key = key)

\* The sessions each caller works on: one caller of IdA, one of IdB, one of both.
KeysOf(c) == IF c = 1 THEN {IdA} ELSE IF c = 2 THEN {IdA, IdB} ELSE {IdB}

\* The entries appended to IdA are small; those appended to IdB exceed the
\* ceiling alone.
SizesOf(key) == IF key = IdA THEN sizes \cap UniformSizes ELSE sizes \ UniformSizes

NextIndep ==
    \/ \E c \in Callers : \E k \in KeysOf(c) : \E size \in SizesOf(k) : CallAppend(c, k, size)
    \/ \E c \in Callers : \E k \in KeysOf(c) : CallRead(c, k)
    \/ \E c \in Callers : \E k \in KeysOf(c) : CallClear(c, k)
    \/ \E c \in Callers : StoreStep(c)

InitIndep ==
    /\ InitStoreWith({IdA, IdB}, UniformSizes \cup {30}, MaxLogBytes)
    /\ InitOrchestrator({}, {}, {}, {})
    /\ InitRegistry
    /\ InitExecutor({1}, {1})

SpecIndep == InitIndep /\ [][NextIndep]_vars /\ FairOn(IdA)

\* fn that settles without running withLock's finally block: the call returns
\* with the key still held.
BodyFailsNoFinally(c) ==
    /\ Running
    /\ cpc[c] \in {"body", "write"}
    /\ stranded' = stranded \cup
                      {cop[q].entry.id : q \in {w \in Callers : cpc[w] = "queued"
                                                    /\ cop[w].key = cop[c].key
                                                    /\ cop[w].op = "append"}}
    /\ cpc' = [cpc EXCEPT ![c] = "idle"]
    /\ cop' = [cop EXCEPT ![c] = NoOp]
    /\ cbuf' = [cbuf EXCEPT ![c] = <<>>]
    /\ UNCHANGED <<ids, sizes, maxLogBytes, sideFiles, overwritten, held, queues, files,
                   nextId, issued, written, evicted, orchVars, regVars, execVars>>

\* fn rejects: mkdir, readFile (an error that is neither ENOENT nor a
\* SyntaxError), writeFile or unlink (not ENOENT) failed. Nothing is written;
\* withLock's finally block runs next.
BodyFails(c) ==
    /\ Running
    /\ cpc[c] \in {"body", "write"}
    /\ stranded' = stranded \cup
                      {cop[q].entry.id : q \in {w \in Callers : cpc[w] = "queued"
                                                    /\ cop[w].key = cop[c].key
                                                    /\ cop[w].op = "append"}}
    /\ cpc' = [cpc EXCEPT ![c] = "release"]
    /\ UNCHANGED <<ids, sizes, maxLogBytes, sideFiles, overwritten, held, queues, files, cop,
                   cbuf, nextId, issued, written, evicted, orchVars, regVars, execVars>>

\* The store on a file system whose calls may fail, callers of one session.
NextFail ==
    \/ \E c \in Callers, k \in ids, size \in sizes : CallAppend(c, k, size)
    \/ \E c \in Callers, k \in ids : CallRead(c, k)
    \/ \E c \in Callers, k \in ids : CallClear(c, k)
    \/ \E c \in Callers : StoreStep(c)
    \/ \E c \in Callers : BodyFails(c)

InitFail ==
    /\ InitStoreWith({IdA}, UniformSizes, MaxLogBytes)
    /\ InitOrchestrator({}, {}, {}, {})
    /\ InitRegistry
    /\ InitExecutor({1}, {1})

\* Every file system call settles, one way or the other, and the event loop
\* runs every continuation that is ready.
FairFail == \A c \in Callers : WF_vars(StoreStep(c) \/ BodyFails(c))

SpecFail == InitFail /\ [][NextFail]_vars /\ FairFail

\* What the data directory may hold for a session when the server starts.
FoundFiles == {NoFile, MalformedFile, NonArrayFile}

\* Callers of one session whose file may be malformed or no array at the start.
InitFound ==
    /\ \E found \in [Paths -> FoundFiles] :
          InitStoreFound({IdA}, UniformSizes, MaxLogBytes, found)
    /\ InitOrchestrator({}, {}, {}, {})
    /\ InitRegistry
    /\ InitExecutor({1}, {1})

SpecFound == InitFound /\ [][NextStore]_vars

\* -------------------------------------------------------- the orchestrator

\* types.ts: the roles that may not delegate, those that may use tools.
NON_DELEGATING_ROLES == {"code", "analysis", "research", "review", "test"}
TOOL_USING_ROLES == {"code", "analysis", "research", "review", "test"}

\* The roles of the requests the tool handlers pass to run.
RequestRoles == {"planner", "code"}
\* The delegation lists a backend answer may declare (by target role).
DeclaredLists == {<<>>, <<"code">>, <<"planner", "code", "code">>}

\* A raw backend answer: whether it is JSON, whether that JSON passes
\* AgentResponseSchema, whether it has a string summary, and the delegations
\* it declares (of known roles when it passes the schema).
RawAnswers ==
    [json : {TRUE}, schema : {TRUE}, summary : {TRUE}, delegations : DeclaredLists]
    \cup [json : {TRUE}, schema : {FALSE}, summary : BOOLEAN, delegations : {<<"code">>}]
    \cup [json : {FALSE}, schema : {FALSE}, summary : {FALSE}, delegations : {<<>>}]

\* A note of a result: what it says and, for skipped delegations, how many.
Note(kind) == [kind |-> kind, count |-> 0]
SkippedNote(truncatedCount) == [kind |-> "delegations skipped", count |-> truncatedCount]

\* parseAgentResponse that summarises an answer that is not JSON by nothing.
parseAgentResponseNoSummary(raw, text) ==
    IF raw.json /\ raw.schema
    THEN [valid |-> TRUE,
          data |-> [summary |-> "summary field", delegations |-> raw.delegations,
                    notes |-> <<>>]]
    ELSE IF raw.json
    THEN [valid |-> FALSE,
          data |-> [summary |-> IF raw.summary THEN "summary field" ELSE text,
                    delegations |-> <<>>,
                    notes |-> <<Note("validation errors")>>]]
    ELSE [valid |-> FALSE,
          data |-> [summary |-> "none", delegations |-> <<>>,
                    notes |-> <<Note("not valid JSON")>>]]

\* parseAgentResponse of the raw answer with the given text: the validity flag
\* and the data, which is the fallback (the summary field if it is a string, else
\* the text; no delegations; one note) when the answer is not valid.
parseAgentResponse(raw, text) ==
    IF raw.json /\ raw.schema
    THEN [valid |-> TRUE,
          data |-> [summary |-> "summary field", delegations |-> raw.delegations,
                    notes |-> <<>>]]
    ELSE IF raw.json
    THEN [valid |-> FALSE,
          data |-> [summary |-> IF raw.summary THEN "summary field" ELSE text,
                    delegations |-> <<>>,
                    notes |-> <<Note("validation errors")>>]]
    ELSE [valid |-> FALSE,
          data |-> [summary |-> text, delegations |-> <<>>,
                    notes |-> <<Note("not valid JSON")>>]]

\* Array.prototype.slice(0, end): a negative end counts from the end of the list.
SliceTo(list, end) ==
    LET stop == IF end < 0 THEN (IF Len(list) + end < 0 THEN 0 ELSE Len(list) + end)
                ELSE IF end > Len(list) THEN Len(list) ELSE end
    IN SubSeq(list, 1, stop)

RECURSIVE KnownRoles(_)
KnownRoles(delegations) ==
    IF delegations = <<>> THEN <<>>
    ELSE IF Head(delegations) \in Roles
    THEN <<Head(delegations)>> \o KnownRoles(Tail(delegations))
    ELSE KnownRoles(Tail(delegations))

\* allowDelegation that looks at the depth alone.
AllowDelegationAnyRole(role, depth, maxDepth) ==
    depth + 1 < maxDepth

\* run: const allowDelegation = depth + 1 < maxDepth && !NON_DELEGATING_ROLES.includes(role)
AllowDelegation(role, depth, maxDepth) ==
    depth + 1 < maxDepth /\ role \notin NON_DELEGATING_ROLES

\* prepareDelegations with an off-by-one slice (maxDelegations + 1 honored).
prepareDelegationsOneMore(delegations, depth, maxDepth, maxDelegations, allowDelegation) ==
    IF ~allowDelegation \/ depth + 1 >= maxDepth
    THEN [delegations |-> <<>>, truncatedCount |-> Len(delegations)]
    ELSE LET valid == KnownRoles(delegations)
             truncated == SliceTo(valid, maxDelegations + 1)
         IN [delegations |-> truncated,
             truncatedCount |-> Len(valid) - Len(truncated)]

\* prepareDelegations that keeps the last maxDelegations instead of the first.
prepareDelegationsLast(delegations, depth, maxDepth, maxDelegations, allowDelegation) ==
    IF ~allowDelegation \/ depth + 1 >= maxDepth
    THEN [delegations |-> <<>>, truncatedCount |-> Len(delegations)]
    ELSE LET valid == KnownRoles(delegations)
             truncated == IF Len(valid) <= maxDelegations THEN valid
                          ELSE SubSeq(valid, Len(valid) - maxDelegations + 1, Len(valid))
         IN [delegations |-> truncated,
             truncatedCount |-> Len(valid) - Len(truncated)]

\* prepareDelegations: none when delegation is not allowed here, else the known
\* roles cut to the first maxDelegations.
prepareDelegations(delegations, depth, maxDepth, maxDelegations, allowDelegation) ==
    IF ~allowDelegation \/ depth + 1 >= maxDepth
    THEN [delegations |-> <<>>, truncatedCount |-> Len(delegations)]
    ELSE LET valid == KnownRoles(delegations)
             truncated == SliceTo(valid, maxDelegations)
         IN [delegations |-> truncated,
             truncatedCount |-> Len(valid) - Len(truncated)]

\* An entry run appends to the session log (a request or a response entry): to
\* the store it is its serialized size.
OrchEntry == LogEntry(0, OrchEntrySize)

\* The same entries with what run writes in them: the type and depth of their
\* meta, their role, and the delegated roles of a response entry.
RunEntry(type, depth, role, delegations) ==
    [id |-> 0, size |-> OrchEntrySize, marker |-> FALSE, removed |-> 0,
     type |-> type, depth |-> depth, role |-> role, delegations |-> delegations]

RequestEntry(step) == RunEntry("request", step.depth, step.role, <<>>)
ToolCallEntry(step) == RunEntry("tool_call", step.depth, "tool", <<>>)
ResponseEntry(step) == RunEntry("response", step.depth, "assistant", step.delegations)

\* A request as run sees it after its defaults are applied.
Request(role, depth, maxDepth, maxDelegations) ==
    [role |-> role, depth |-> depth, maxDepth |-> maxDepth,
     maxDelegations |-> maxDelegations]

\* The frame of one run call: its request, where it stands, and what it has
\* gathered for its result. Of its answer it also records: schema, "valid" when
\* the first answer passed, "reformatted" when the retry's did, else "fallback";
\* retried, the reformatting calls made; retry, how the last of them ended;
\* declared, the delegations parsed; toolCallHistory, the length of the
\* executor's history, and toolLogged, how many of its entries are logged.
NoRaw == [text |-> "none", json |-> FALSE]

NewFrame(request) ==
    [role |-> request.role, depth |-> request.depth, maxDepth |-> request.maxDepth,
     maxDelegations |-> request.maxDelegations, pc |-> "read",
     raw |-> NoRaw, schema |-> "none", retried |-> 0, retry |-> "none",
     declared |-> <<>>, toolCallHistory |-> 0, toolLogged |-> 0,
     summary |-> "none", notes |-> <<>>,
     delegations |-> <<>>, children |-> <<>>]

\* ChildRequest that passes the parent's own depth on.
ChildRequestSameDepth(frame, role) ==
    Request(role, frame.depth, frame.maxDepth, frame.maxDelegations)

\* The request run makes for a delegation: depth + 1, the same limits.
ChildRequest(frame, role) ==
    Request(role, frame.depth + 1, frame.maxDepth, frame.maxDelegations)

\* The AgentResult of a finished frame; depth, the limits in effect and the
\* length of the executor's tool-call history are recorded with it.
ResultOf(frame) ==
    [role |-> frame.role, depth |-> frame.depth, maxDepth |-> frame.maxDepth,
     maxDelegations |-> frame.maxDelegations,
     raw |-> frame.raw, summary |-> frame.summary, notes |-> frame.notes,
     toolCallHistory |-> frame.toolCallHistory,
     delegations |-> frame.delegations, children |-> frame.children]

\* AgentLimitReached with > for >=.
AgentLimitReachedOff(currentCount) == currentCount > MaxAgents

\* run: if (currentCount >= this.maxAgentsPerSession) throw
AgentLimitReached(currentCount) == currentCount >= MaxAgents

\* The state a run's turn leaves behind: its frames, the counters, and whether
\* it threw the agent-limit error.
Outcome(stack, counts, adm, threw) ==
    [stack |-> stack, counts |-> counts, adm |-> adm, threw |-> threw, pending |-> 0]

\* The delegations the parent of the innermost step has yet to start.
Pending(stack) ==
    IF Len(stack) > 1
    THEN LET parent == stack[Len(stack) - 1]
         IN Len(parent.delegations) - Len(parent.children) - 1
    ELSE 0

\* A step raises and its parent catches the error and goes on to its response.
RaiseCaughtByParent(stack) ==
    IF Len(stack) > 1
    THEN [SubSeq(stack, 1, Len(stack) - 1) EXCEPT ![Len(stack) - 1].pc = "respond"]
    ELSE <<>>

\* A step raises: run has no try/catch around its awaits, so the step's call
\* rejects, and with it the call of every step above it, up to the handler.
Raise(stack) == <<>>

\* EnterRun that admits without incrementing the session's agent count.
EnterRunUncounted(stack, counts, adm, sid, request) ==
    IF AgentLimitReached(counts[sid])
    THEN Outcome(<<>>, counts, adm, TRUE)
    ELSE Outcome(Append(stack, NewFrame(request)), counts,
                 [adm EXCEPT ![sid] = @ + 1], FALSE)

\* run from its call to its first await: check and increment the session's
\* agent count, then start on memory.read.
EnterRun(stack, counts, adm, sid, request) ==
    IF AgentLimitReached(counts[sid])
    THEN [Outcome(Raise(Append(stack, NewFrame(request))), counts, adm, TRUE)
            EXCEPT !.pending = Pending(Append(stack, NewFrame(request)))]
    ELSE Outcome(Append(stack, NewFrame(request)),
                 [counts EXCEPT ![sid] = @ + 1],
                 [adm EXCEPT ![sid] = @ + 1], FALSE)

\* RunChildren that leaves the parent where it was, awaiting its answer.
RunChildrenNotWaiting(stack, counts, adm, sid) ==
    LET top == stack[Len(stack)]
    IN IF Len(top.children) < Len(top.delegations)
       THEN EnterRun(stack, counts, adm, sid,
                     ChildRequest(top, top.delegations[Len(top.children) + 1]))
       ELSE Outcome([stack EXCEPT ![Len(stack)].pc = "respond"], counts, adm, FALSE)

\* The loop over the delegations: call run for the next one and await it, or go
\* on to append the response entry once every child has returned.
RunChildren(stack, counts, adm, sid) ==
    LET top == stack[Len(stack)]
    IN IF Len(top.children) < Len(top.delegations)
       THEN EnterRun([stack EXCEPT ![Len(stack)].pc = "children"], counts, adm, sid,
                     ChildRequest(top, top.delegations[Len(top.children) + 1]))
       ELSE Outcome([stack EXCEPT ![Len(stack)].pc = "respond"], counts, adm, FALSE)

\* run after its answer is parsed: add the tool notes' place, prepare the
\* delegations, note a truncation, then run the children.
AfterParse(stack, counts, adm, sid, parsed) ==
    LET top == stack[Len(stack)]
        allow == AllowDelegation(top.role, top.depth, top.maxDepth)
        prepared == prepareDelegations(parsed.delegations, top.depth, top.maxDepth,
                                       top.maxDelegations, allow)
        notes == IF prepared.truncatedCount > 0
                 THEN Append(parsed.notes, SkippedNote(prepared.truncatedCount))
                 ELSE parsed.notes
        frame == [top EXCEPT !.summary = parsed.summary, !.notes = notes,
                             !.declared = parsed.delegations,
                             !.delegations = prepared.delegations]
    IN RunChildren([stack EXCEPT ![Len(stack)] = frame], counts, adm, sid)

\* The variables a turn of run r leaves, from the turn's outcome.
Leave(r, out) ==
    /\ rstack' = [rstack EXCEPT ![r] = out.stack]
    /\ rstatus' = [rstatus EXCEPT ![r] = IF out.threw /\ out.stack = <<>>
                                         THEN "failed" ELSE "running"]
    /\ sessionAgentCounts' = out.counts
    /\ admitted' = out.adm

\* The run call a turn made on session sid, from the turn's outcome.
Attempt(out, sid, produced) ==
    IF out.threw \/ out.adm[sid] # admitted[sid]
    THEN [made |-> TRUE, rejected |-> out.threw, admitted |-> admitted[sid],
          produced |-> produced]
    ELSE NoAttempt

\* A step that calls run for nothing.
NoRunCall == [ghost EXCEPT !.attempt = NoAttempt]

\* What is observed of a raise in run r: the error and the depth of the step
\* that raised it, the delegations its parent had yet to start, and the error
\* the outermost call rejects with, if it does.
Observed(g, r, error, depth, pending, stack) ==
    [g EXCEPT !.raised[r] = [error |-> error, depth |-> depth, pending |-> pending],
              !.thrown[r] = IF stack = <<>> THEN error ELSE @]

\* The same for a turn that called run at the given depth: the quota error, if
\* the call was rejected.
Rejection(g, r, out, depth) ==
    IF out.threw
    THEN Observed(g, r, "Agent limit exceeded", depth, out.pending, out.stack)
    ELSE g

Top(r) == rstack[r][Len(rstack[r])]

\* The run slot the next request is served in: the lowest idle one.
FreeRun(r) == rstatus[r] = "idle" /\ \A q \in Runs : q < r => rstatus[q] # "idle"

At(r, pc) == rstatus[r] = "running" /\ rstack[r] # <<>> /\ Top(r).pc = pc

\* The planner or subagent handler calls run with a depth-0 request.
StartRun(r, sid, request) ==
    /\ Running
    /\ FreeRun(r)
    /\ rsid' = [rsid EXCEPT ![r] = sid]
    /\ LET out == EnterRun(<<>>, sessionAgentCounts, admitted, sid, request)
       IN /\ Leave(r, out)
          /\ ghost' = Rejection(
                          [ghost EXCEPT !.clearQuiet = @ /\ sid # clearSid,
                                        !.cleared = @ \ {sid},
                                        !.attempt = Attempt(out, sid, ghost.produced[sid])],
                          r, out, 0)
    /\ UNCHANGED <<storeVars, orchConfig, regVars, execVars, rresult, clearPc, clearSid>>

\* await this.memory.read(sessionId) returns.
ReadSessionLog(r) ==
    /\ Running
    /\ At(r, "read")
    /\ rstack' = [rstack EXCEPT ![r][Len(rstack[r])].pc = "request"]
    /\ ghost' = NoRunCall
    /\ UNCHANGED <<storeVars, orchConfig, regVars, execVars, sessionAgentCounts, admitted, rstatus,
                   rsid, rresult, clearPc, clearSid>>

\* memory.append as run sees it: the store's append from call to return, or
\* its eviction loop spinning for ever.
MemoryAppend(r, entry, next) ==
    LET path == sessionPath(rsid[r])
        result == EvictLoop(Append(readInternal(files[path]), entry), maxLogBytes)
    IN IF result.hang
       THEN /\ rstatus' = [rstatus EXCEPT ![r] = "hung"]
            /\ ghost' = NoRunCall
            /\ UNCHANGED <<files, rstack, rresult, sessionAgentCounts, admitted>>
       ELSE /\ files' = [files EXCEPT ![path] = ArrayFile(result.log)]
            /\ next

\* The request entry is appended; run goes on to ask the backend.
LogRequestAs(r, entry) ==
    /\ Running
    /\ At(r, "request")
    /\ MemoryAppend(r, entry,
                    /\ rstack' = [rstack EXCEPT ![r][Len(rstack[r])].pc = "answer"]
                    /\ ghost' = NoRunCall
                    /\ UNCHANGED <<rstatus, rresult, sessionAgentCounts, admitted>>)
    /\ UNCHANGED <<ids, sizes, maxLogBytes, sideVars, held, queues, cpc, cop, cbuf, nextId,
                   issued, written, evicted, orchConfig, regVars, execVars, rsid, clearPc, clearSid>>

\* The same with the entry taken for its size alone.
LogRequest(r) == LogRequestAs(r, OrchEntry)

\* The executor returns with a history of tool calls; run starts logToolCalls.
ExecutorReturns(r, toolCallHistory) ==
    /\ Running
    /\ At(r, "answer")
    /\ Top(r).role \in TOOL_USING_ROLES
    /\ rstack' = [rstack EXCEPT ![r][Len(rstack[r])] =
                     [@ EXCEPT !.pc = "log_tools", !.toolCallHistory = toolCallHistory]]
    /\ ghost' = NoRunCall
    /\ UNCHANGED <<storeVars, orchConfig, regVars, execVars, sessionAgentCounts, admitted, rstatus,
                   rsid, rresult, clearPc, clearSid>>

\* LogToolCall that goes on to the next entry without appending this one.
LogToolCallSkipped(r) ==
    /\ Running
    /\ At(r, "log_tools")
    /\ Top(r).toolLogged < Top(r).toolCallHistory
    /\ rstack' = [rstack EXCEPT ![r][Len(rstack[r])].toolLogged = @ + 1]
    /\ ghost' = NoRunCall
    /\ UNCHANGED <<storeVars, orchConfig, regVars, execVars, sessionAgentCounts, admitted, rstatus,
                   rsid, rresult, clearPc, clearSid>>

\* logToolCalls: the next entry of the history is appended.
LogToolCall(r) ==
    /\ Running
    /\ At(r, "log_tools")
    /\ Top(r).toolLogged < Top(r).toolCallHistory
    /\ MemoryAppend(r, ToolCallEntry(Top(r)),
                    /\ rstack' = [rstack EXCEPT ![r][Len(rstack[r])].toolLogged = @ + 1]
                    /\ ghost' = NoRunCall
                    /\ UNCHANGED <<rstatus, rresult, sessionAgentCounts, admitted>>)
    /\ UNCHANGED <<ids, sizes, maxLogBytes, sideVars, held, queues, cpc, cop, cbuf, nextId,
                   issued, written, evicted, orchConfig, regVars, execVars, rsid, clearPc, clearSid>>

\* run from the raw answer on. A valid answer, or any answer of the executor, is
\* parsed and acted on; an invalid answer of the direct call is retried first:
\* run calls retryWithSchemaFix, which calls the backend again.
ParseAnswer(r, raw, shouldUseTools, g) ==
    /\ Running
    /\ At(r, "answer") \/ At(r, "log_tools")
    /\ LET parseResult == parseAgentResponse(raw, "answer")
           parsed == [rstack[r] EXCEPT ![Len(rstack[r])] =
                        [@ EXCEPT !.raw = [text |-> "answer", json |-> raw.json],
                                  !.schema = IF parseResult.valid THEN "valid"
                                             ELSE "fallback"]]
       IN IF ~parseResult.valid /\ ~shouldUseTools
          THEN /\ rstack' = [rstack EXCEPT ![r] =
                               [parsed EXCEPT ![Len(parsed)] =
                                  [@ EXCEPT !.pc = "retry", !.retried = @ + 1,
                                            !.summary = parseResult.data.summary,
                                            !.notes = parseResult.data.notes]]]
               /\ ghost' = [g EXCEPT !.attempt = NoAttempt]
               /\ UNCHANGED <<rstatus, sessionAgentCounts, admitted>>
          ELSE LET out == AfterParse(parsed, sessionAgentCounts, admitted, rsid[r],
                                     parseResult.data)
               IN /\ Leave(r, out)
                  /\ ghost' = Rejection(
                                  [g EXCEPT !.attempt =
                                      Attempt(out, rsid[r], ghost.produced[rsid[r]])],
                                  r, out, Len(rstack[r]))
    /\ UNCHANGED <<storeVars, orchConfig, regVars, execVars, rsid, rresult, clearPc, clearSid>>

\* The backend answers (through the tool-use executor when shouldUseTools, else
\* the direct call).
Answer(r, raw, shouldUseTools) ==
    /\ At(r, "answer")
    /\ shouldUseTools => Top(r).role \in TOOL_USING_ROLES
    /\ ParseAnswer(r, raw, shouldUseTools, ghost)

\* logToolCalls has returned: run parses the executor's final content.
ExecutorAnswer(r, raw) ==
    /\ At(r, "log_tools")
    /\ Top(r).toolLogged = Top(r).toolCallHistory
    /\ ParseAnswer(r, raw, TRUE, ghost)

\* retryWithSchemaFix returns: the reformatted answer when it is valid, else
\* null (also when the call threw), and run keeps the first parse's fallback.
RetryAnswer(r, raw, threw) ==
    /\ Running
    /\ At(r, "retry")
    /\ LET retried == parseAgentResponse(raw, "reformatted")
           fixed == ~threw /\ retried.valid
           parsed == IF fixed THEN retried.data
                     ELSE [summary |-> Top(r).summary, delegations |-> <<>>,
                           notes |-> Top(r).notes]
           stack == IF fixed
                    THEN [rstack[r] EXCEPT ![Len(rstack[r])] =
                            [@ EXCEPT !.raw = [text |-> "reformatted", json |-> TRUE],
                                      !.schema = "reformatted", !.retry = "valid"]]
                    ELSE [rstack[r] EXCEPT ![Len(rstack[r])].retry =
                            IF threw THEN "threw"
                            ELSE IF raw.json THEN "validation errors"
                            ELSE "not valid JSON"]
           out == AfterParse(stack, sessionAgentCounts, admitted, rsid[r], parsed)
       IN /\ Leave(r, out)
          /\ ghost' = Rejection(
                          [ghost EXCEPT !.attempt =
                              Attempt(out, rsid[r], ghost.produced[rsid[r]])],
                          r, out, Len(rstack[r]))
    /\ UNCHANGED <<storeVars, orchConfig, regVars, execVars, rsid, rresult, clearPc, clearSid>>

\* The response entry is appended and run returns its result: to the handler,
\* or to the parent run, which goes on with its next delegation.
LogResponseAs(r, entry) ==
    /\ Running
    /\ At(r, "respond")
    /\ LET result == ResultOf(Top(r))
           below == SubSeq(rstack[r], 1, Len(rstack[r]) - 1)
           parent == below[Len(below)]
           resumed == [below EXCEPT ![Len(below)].children = Append(@, result)]
           produced == ghost.produced[rsid[r]] + 1
           out == RunChildren(resumed, sessionAgentCounts, admitted, rsid[r])
       IN MemoryAppend(r, entry,
              IF below = <<>>
              THEN /\ rstack' = [rstack EXCEPT ![r] = <<>>]
                   /\ rstatus' = [rstatus EXCEPT ![r] = "returned"]
                   /\ rresult' = [rresult EXCEPT ![r] = result]
                   /\ ghost' = [ghost EXCEPT !.attempt = NoAttempt,
                                             !.produced[rsid[r]] = produced]
                   /\ UNCHANGED <<sessionAgentCounts, admitted>>
              ELSE /\ Leave(r, out)
                   /\ ghost' = Rejection(
                                   [ghost EXCEPT !.attempt = Attempt(out, rsid[r], produced),
                                                 !.produced[rsid[r]] = produced],
                                   r, out, Len(rstack[r]) - 1)
                   /\ UNCHANGED rresult)
    /\ UNCHANGED <<ids, sizes, maxLogBytes, sideVars, held, queues, cpc, cop, cbuf, nextId,
                   issued, written, evicted, orchConfig, regVars, execVars, rsid, clearPc, clearSid>>

\* The same with the entry taken for its size alone.
LogResponse(r) == LogResponseAs(r, OrchEntry)

\* The handler has sent its response (the result, or the error run threw).
Respond(r) ==
    /\ Running
    /\ rstatus[r] \in {"returned", "failed"}
    /\ rstatus' = [rstatus EXCEPT ![r] = "idle"]
    /\ rresult' = [rresult EXCEPT ![r] = NoResult]
    /\ ghost' = [ghost EXCEPT !.attempt = NoAttempt, !.raised[r] = NoError,
                              !.thrown[r] = "none"]
    /\ UNCHANGED <<storeVars, orchConfig, regVars, execVars, sessionAgentCounts, admitted, rsid, rstack,
                   clearPc, clearSid>>

\* An await of the innermost step of run r rejects: the backend call (direct or
\* through the executor) with a backend error, or the store's read or append
\* with a store error. (retryWithSchemaFix catches the errors of its own call.)
Throws(r, error) ==
    /\ Running
    /\ rstatus[r] = "running"
    /\ rstack[r] # <<>>
    /\ \/ error = "backend" /\ Top(r).pc = "answer"
       \/ error = "store" /\ Top(r).pc \in {"read", "request", "respond"}
    /\ LET stack == Raise(rstack[r])
       IN /\ rstack' = [rstack EXCEPT ![r] = stack]
          /\ rstatus' = [rstatus EXCEPT ![r] = IF stack = <<>> THEN "failed" ELSE "running"]
          /\ ghost' = Observed(NoRunCall, r, error, Top(r).depth, Pending(rstack[r]),
                               stack)
    /\ UNCHANGED <<storeVars, orchConfig, regVars, execVars, sessionAgentCounts, admitted, rsid,
                   rresult, clearPc, clearSid>>

\* A run call on the session has been admitted and has not returned or thrown.
InFlight(sid) == \E r \in Runs : rstatus[r] \in {"running", "hung"} /\ rsid[r] = sid

\* The session_clear handler up to the return of memory.clear: the file is gone.
SessionClear(sid) ==
    /\ Running
    /\ clearPc = "idle"
    /\ files' = [files EXCEPT ![sessionPath(sid)] = NoFile]
    /\ clearPc' = "unlinked"
    /\ clearSid' = sid
    /\ ghost' = [ghost EXCEPT !.clearQuiet = ~InFlight(sid), !.cleared = @ \ {sid},
                              !.attempt = NoAttempt]
    /\ UNCHANGED <<ids, sizes, maxLogBytes, sideVars, held, queues, cpc, cop, cbuf, nextId,
                   issued, written, evicted, orchConfig, regVars, execVars, sessionAgentCounts,
                   admitted, rstatus, rsid, rstack, rresult>>

\* resetSessionAgentCount that leaves the count as it is.
resetSessionAgentCountKept(counts, sid) == counts

\* resetSessionAgentCount: this.sessionAgentCounts.delete(sessionId)
resetSessionAgentCount(counts, sid) == [counts EXCEPT ![sid] = 0]

\* The session_clear handler after memory.clear: reset the agent count.
SessionReset ==
    /\ Running
    /\ clearPc = "unlinked"
    /\ sessionAgentCounts' = resetSessionAgentCount(sessionAgentCounts, clearSid)
    /\ admitted' = [admitted EXCEPT ![clearSid] = 0]
    /\ clearPc' = "idle"
    /\ ghost' = [ghost EXCEPT !.clearQuiet = FALSE,
                              !.cleared = IF ghost.clearQuiet THEN @ \cup {clearSid} ELSE @,
                              !.attempt = NoAttempt,
                              !.produced[clearSid] = 0]
    /\ UNCHANGED <<storeVars, orchConfig, regVars, execVars, rstatus, rsid, rstack, rresult, clearSid>>

NextOrch ==
    \/ \E r \in slots, sid \in ids, request \in requests : StartRun(r, sid, request)
    \/ \E r \in slots : ReadSessionLog(r)
    \/ \E r \in slots : LogRequest(r)
    \/ \E r \in slots, raw \in answers, shouldUseTools \in BOOLEAN :
            Answer(r, raw, shouldUseTools)
    \/ \E r \in slots, raw \in reformats, threw \in BOOLEAN : RetryAnswer(r, raw, threw)
    \/ \E r \in slots : LogResponse(r)
    \/ \E r \in slots : Respond(r)
    \/ \E sid \in ids : SessionClear(sid)
    \/ SessionReset

\* The depth-0 requests the planner and subagent handlers make: any role asked
\* for, max_depth and max_delegations as validated by the tool schemas.
RootRequests ==
    {Request(role, 0, maxDepth, maxDelegations) :
        role \in RequestRoles, maxDepth \in 1..MaxDepthLimit,
        maxDelegations \in 1..MaxFanOut}

\* An answer that is not JSON.
NotJson == [json |-> FALSE, schema |-> FALSE, summary |-> FALSE, delegations |-> <<>>]

\* The answers that pass the schema, and one that is not JSON.
OrchAnswers == {raw \in RawAnswers : raw.schema} \cup {NotJson}

\* One request served at a time, of any kind; reformatting never helps.
InitOrch ==
    /\ InitStoreWith({IdA}, UniformSizes, OrchLogBytes)
    /\ InitOrchestrator({1}, RootRequests, OrchAnswers, {NotJson})
    /\ InitRegistry
    /\ InitExecutor({1}, {1})

SpecOrch == InitOrch /\ [][NextOrch]_vars

\* The errors an await of run can reject with.
Errors == {"backend", "store"}

\* The orchestrator with a backend and a store that can fail.
NextRaise ==
    \/ NextOrch
    \/ \E r \in slots, error \in Errors : Throws(r, error)

SpecRaise == InitOrch /\ [][NextRaise]_vars

\* The planner requests that delegate as far as the limits allow, and a
\* subagent request.
QuotaRequests ==
    {Request("planner", 0, 2, MaxFanOut), Request("code", 0, 1, 1)}

\* The answers of the concurrent requests: two delegations, or not JSON.
QuotaAnswers ==
    {[json |-> TRUE, schema |-> TRUE, summary |-> TRUE,
      delegations |-> <<"code", "code">>],
     NotJson}

\* Requests served concurrently on one session.
InitQuota ==
    /\ InitStoreWith({IdA}, UniformSizes, OrchLogBytes)
    /\ InitOrchestrator(Runs, QuotaRequests, QuotaAnswers, {NotJson})
    /\ InitRegistry
    /\ InitExecutor({1}, {1})

SpecQuota == InitQuota /\ [][NextOrch]_vars

\* A planner request that may delegate, and a subagent request.
AnswerRequests ==
    {Request("planner", 0, 2, 1), Request("planner", 0, 2, MaxFanOut),
     Request("code", 0, 1, 1)}

\* One request served at a time, with any answer, first or reformatted.
InitAnswer ==
    /\ InitStoreWith({IdA}, UniformSizes, OrchLogBytes)
    /\ InitOrchestrator({1}, AnswerRequests, RawAnswers, RawAnswers)
    /\ InitRegistry
    /\ InitExecutor({1}, {1})

SpecAnswer == InitAnswer /\ [][NextOrch]_vars

\* ------------------------------------------------------- the tool registry

\* A tool name or a pattern is the sequence of its parts; Star is the glob '*'.
Star == "*"
Name(server, verb, object) == <<server, ":", verb, object>>

TOOL_ACCESS_LEVELS == {"none", "read", "write", "execute", "admin"}
TOOL_ACCESS_LEVEL_ORDER == [none |-> 0, read |-> 1, write |-> 2, execute |-> 3, admin |-> 4]

\* types.ts: the static patterns of each role.
ROLE_TOOL_PERMISSIONS ==
    [planner |-> {},
     code |-> {Name("smart-io", "read_", "file"), Name("smart-io", "edit_", "file"),
               Name("smart-io", "create_", "file"), Name("smart-io", "run_", "shell")},
     analysis |-> {Name("smart-io", "read_", "file"), Name("smart-io", "grep_", "file"),
                   Name("smart-io", "read_", "log"), Name("smart-io", "list_", "processes"),
                   Name("smart-io", "list_", "directory_tree"),
                   Name("smart-io", "find_", "files"), Name("smart-io", "run_", "shell"),
                   Name("smart-io", "run_", "powershell")},
     research |-> {<<Star, ":", "web_search">>, <<Star, ":", "web_fetch">>,
                   Name("smart-io", "read_", "file"), Name("smart-io", "grep_", "file"),
                   <<"keeper-memory", Star, ":", Star>>},
     review |-> {Name("smart-io", "read_", "file"), Name("smart-io", "grep_", "file"),
                 <<"smart-io", ":", "syntax_check">>,
                 Name("smart-io", "check_", "git_status")},
     test |-> {Name("smart-io", "run_", "shell"), Name("smart-io", "read_", "file"),
               Name("smart-io", "create_", "file"), Name("smart-io", "read_", "log")}]

\* types.ts: the default maximum tool access level of each role.
ROLE_TOOL_ACCESS_LEVELS ==
    [planner |-> "none", analysis |-> "execute", research |-> "read",
     review |-> "read", code |-> "execute", test |-> "execute"]

\* '*:<prefix>*' for each of the prefixes.
Prefixed(prefixes) == {<<Star, ":", prefix, Star>> : prefix \in prefixes}

TOOL_LEVEL_PATTERNS ==
    [none |-> {},
     read |-> Prefixed({"read_", "list_", "find_", "grep_", "search_", "check_",
                        "status", "env_", "recent_", "tail_", "web_search",
                        "web_fetch"})
              \cup {<<Star, ":", "syntax_check">>, <<Star, ":", "session_init">>,
                    <<Star, ":", "session_log">>, <<Star, ":", "read_", "log">>},
     write |-> Prefixed({"create_", "edit_", "write_", "update_", "save_", "apply_"}),
     execute |-> Prefixed({"run_", "shell", "powershell", "execute", "start_",
                           "wait_"}),
     admin |-> Prefixed({"delete_", "remove_", "kill_", "reset_", "undo_",
                         "revert_"})]

RECURSIVE globToRegExp(_, _)
\* globToRegExp(pattern).test(toolName): the pattern's parts match in order to
\* the end of the name, each '*' matching any run of it, an empty one too.
globToRegExp(pattern, toolName) ==
    IF pattern = <<>> THEN toolName = <<>>
    ELSE IF Head(pattern) = Star
    THEN \/ globToRegExp(Tail(pattern), toolName)
         \/ toolName # <<>> /\ globToRegExp(pattern, Tail(toolName))
    ELSE /\ toolName # <<>>
         /\ Head(toolName) = Head(pattern)
         /\ globToRegExp(Tail(pattern), Tail(toolName))

\* matchesTool: some pattern is the name itself, or has a '*' and matches it.
matchesTool(patterns, toolName) ==
    \E pattern \in patterns :
        \/ pattern = toolName
        \/ /\ \E i \in 1..Len(pattern) : pattern[i] = Star
           /\ globToRegExp(pattern, toolName)

\* A discovered tool: its canonical name and the annotation hints set on it.
Annotated(name, annotations) == [name |-> name, annotations |-> annotations]

\* A tool with one hint set, or none.
Tool(name, hint) == Annotated(name, IF hint = "none" THEN {} ELSE {hint})

\* classifyToolAccess that looks at the read-only hint first.
classifyToolAccessReadOnlyFirst(tool) ==
    IF "readOnlyHint" \in tool.annotations THEN "read"
    ELSE IF "destructiveHint" \in tool.annotations THEN "admin"
    ELSE IF "openWorldHint" \in tool.annotations THEN "execute"
    ELSE IF matchesTool(TOOL_LEVEL_PATTERNS.admin, tool.name) THEN "admin"
    ELSE IF matchesTool(TOOL_LEVEL_PATTERNS.execute, tool.name) THEN "execute"
    ELSE IF matchesTool(TOOL_LEVEL_PATTERNS.write, tool.name) THEN "write"
    ELSE IF matchesTool(TOOL_LEVEL_PATTERNS.read, tool.name) THEN "read"
    ELSE "write"

\* classifyToolAccess: the hints first, then the level patterns from admin
\* down, and write for a name no pattern matches.
classifyToolAccess(tool) ==
    IF "destructiveHint" \in tool.annotations THEN "admin"
    ELSE IF "readOnlyHint" \in tool.annotations THEN "read"
    ELSE IF "openWorldHint" \in tool.annotations THEN "execute"
    ELSE IF matchesTool(TOOL_LEVEL_PATTERNS.admin, tool.name) THEN "admin"
    ELSE IF matchesTool(TOOL_LEVEL_PATTERNS.execute, tool.name) THEN "execute"
    ELSE IF matchesTool(TOOL_LEVEL_PATTERNS.write, tool.name) THEN "write"
    ELSE IF matchesTool(TOOL_LEVEL_PATTERNS.read, tool.name) THEN "read"
    ELSE "write"

\* getEffectiveAccessLevel: the role's level override, else its default.
getEffectiveAccessLevel(role) ==
    IF accessOverrides.roleLevels[role] # "unset"
    THEN accessOverrides.roleLevels[role]
    ELSE ROLE_TOOL_ACCESS_LEVELS[role]

\* getToolsForRole: const isDenied, const isAllowed
isDenied(role, toolName) ==
    accessOverrides.deny[role] # {} /\ matchesTool(accessOverrides.deny[role], toolName)

isAllowed(role, toolName) ==
    accessOverrides.allow[role] # {} /\ matchesTool(accessOverrides.allow[role], toolName)

\* getToolsForRole: the tools the static patterns select within the level.
baseTools(role) ==
    {tool \in toolsByCanonical :
        /\ matchesTool(ROLE_TOOL_PERMISSIONS[role], tool.name)
        /\ TOOL_ACCESS_LEVEL_ORDER[classifyToolAccess(tool)]
             <= TOOL_ACCESS_LEVEL_ORDER[getEffectiveAccessLevel(role)]}

\* allowedTools that takes every tool an allow pattern matches.
allowedToolsDenied(role) ==
    {tool \in toolsByCanonical : isAllowed(role, tool.name)}

\* getToolsForRole: the tools the second loop merges in, those an allow pattern
\* matches and no deny pattern does.
allowedTools(role) ==
    {tool \in toolsByCanonical :
        isAllowed(role, tool.name) /\ ~isDenied(role, tool.name)}

\* getToolsForRole: nothing for a role without static patterns; else the base
\* tools not denied, and the allowed tools.
getToolsForRole(role) ==
    IF ROLE_TOOL_PERMISSIONS[role] = {} THEN {}
    ELSE {tool \in baseTools(role) : ~isDenied(role, tool.name)}
         \cup allowedTools(role)

\* The tools the servers may offer.
ReadFile == Tool(Name("smart-io", "read_", "file"), "none")
ReadFileDestructive == Tool(Name("smart-io", "read_", "file"), "destructiveHint")
RunShell == Tool(Name("smart-io", "run_", "shell"), "none")
DeleteFile == Tool(Name("smart-io", "delete_", "file"), "none")
WebSearch == Tool(<<"brave", ":", "web_search">>, "openWorldHint")
Recall == Tool(<<"keeper-memory", ":", "recall">>, "readOnlyHint")

\* The tool sets a refresh may discover.
DiscoveredSets ==
    {{}, {ReadFile}, {ReadFile, RunShell, DeleteFile},
     {ReadFileDestructive, RunShell, WebSearch, Recall}}

\* The roles and the names or patterns the tool_feedback requests are about.
FeedbackRoles == {"research", "code"}
FeedbackNames == {RunShell.name, <<"smart-io", ":", Star>>}
FeedbackActions == {"allow", "deny", "set_level", "clear", "note"}

\* applyFeedback whose allow leaves the deny list as it is.
applyFeedbackKeepingDeny(overrides, role, toolName, action, level) ==
    IF action = "set_level"
    THEN IF level \notin TOOL_ACCESS_LEVELS THEN overrides
         ELSE [overrides EXCEPT !.roleLevels[role] = level]
    ELSE IF action = "allow"
    THEN [overrides EXCEPT !.allow[role] = @ \cup {toolName}]
    ELSE IF action = "deny"
    THEN [overrides EXCEPT !.deny[role] = @ \cup {toolName},
                           !.allow[role] = @ \ {toolName}]
    ELSE IF action = "clear"
    THEN [overrides EXCEPT !.allow[role] = @ \ {toolName},
                           !.deny[role] = @ \ {toolName}]
    ELSE overrides

\* ToolFeedbackStore.applyFeedback: the overrides after the input is applied.
applyFeedback(overrides, role, toolName, action, level) ==
    IF action = "set_level"
    THEN IF level \notin TOOL_ACCESS_LEVELS THEN overrides
         ELSE [overrides EXCEPT !.roleLevels[role] = level]
    ELSE IF action = "allow"
    THEN [overrides EXCEPT !.allow[role] = @ \cup {toolName},
                           !.deny[role] = @ \ {toolName}]
    ELSE IF action = "deny"
    THEN [overrides EXCEPT !.deny[role] = @ \cup {toolName},
                           !.allow[role] = @ \ {toolName}]
    ELSE IF action = "clear"
    THEN [overrides EXCEPT !.allow[role] = @ \ {toolName},
                           !.deny[role] = @ \ {toolName}]
    ELSE overrides

\* The parts of a name outside [a-zA-Z0-9_-].
UnsafeParts == {":", ".", " "}

\* sanitizeToolName: value.replace(/[^a-zA-Z0-9_-]/g, '_')
sanitizeToolName(value) ==
    [i \in 1..Len(value) |-> IF value[i] \in UnsafeParts THEN "_" ELSE value[i]]

\* .replace(/_+/g, '_')
RECURSIVE CollapseUnderscores(_)
CollapseUnderscores(value) ==
    IF Len(value) < 2 THEN value
    ELSE IF value[1] = "_" /\ value[2] = "_" THEN CollapseUnderscores(Tail(value))
    ELSE <<value[1]>> \o CollapseUnderscores(Tail(value))

truncateName(value, maxLength) ==
    IF Len(value) <= maxLength THEN value ELSE SubSeq(value, 1, maxLength)

\* buildOpenAiName: the base alias of a tool, from its server and its name.
buildOpenAiName(server, toolName) ==
    LET base == CollapseUnderscores(
                    sanitizeToolName(server) \o <<"_", "_">> \o sanitizeToolName(toolName))
    IN truncateName(IF base # <<>> THEN base ELSE <<"tool">>, MaxAliasLength)

\* createHash('sha256').update(canonical).digest('hex').slice(0, 8). Of the
\* digest one bit is kept, the parity of the name's length: as with the 32 bits
\* the code keeps, names that differ can have one hash.
hash(canonical) == IF Len(canonical) % 2 = 0 THEN "00000000" ELSE "00000001"

\* ensureUniqueName: the base if it is free; else the base with the hash of the
\* canonical name, cut to fit; else the same with the first free counter below
\* the limit; else the hash followed by '_tool'.
ensureUniqueName(base, canonical, used) ==
    LET suffix == <<"_", hash(canonical)>>
        candidate == truncateName(base, MaxAliasLength - Len(suffix)) \o suffix
        numbered(counter) ==
            LET numberedSuffix == <<"_", hash(canonical), "_", ToString(counter)>>
            IN truncateName(base, MaxAliasLength - Len(numberedSuffix)) \o numberedSuffix
        free == {counter \in 1..(CounterLimit - 1) : numbered(counter) \notin used}
    IN IF base \notin used THEN base
       ELSE IF candidate \notin used THEN candidate
       ELSE IF free # {}
       THEN numbered(CHOOSE counter \in free : \A other \in free : counter <= other)
       ELSE <<hash(canonical), "_tool">>

\* The server and the tool name of a canonical name '<server>:<tool name>'.
ServerOf(name) == <<Head(name)>>
ToolNameOf(name) == SubSeq(name, 3, Len(name))

\* refresh's loop over the aggregated tools: each gets its alias, and the
\* alias map's entry of that alias is set to it.
RECURSIVE Registered(_, _)
Registered(aggregated, byOpenAiName) ==
    IF aggregated = <<>> THEN byOpenAiName
    ELSE LET name == Head(aggregated).name
             usedOpenAiNames == {entry.openAiName : entry \in byOpenAiName}
             openAiName == ensureUniqueName(
                               buildOpenAiName(ServerOf(name), ToolNameOf(name)),
                               name, usedOpenAiNames)
         IN Registered(Tail(aggregated),
                       {entry \in byOpenAiName : entry.openAiName # openAiName}
                       \cup {[openAiName |-> openAiName, name |-> name]})

\* The orders getAllTools may list a set of tools in.
RECURSIVE Orderings(_)
Orderings(tools) ==
    IF tools = {} THEN {<<>>}
    ELSE UNION {{<<tool>> \o rest : rest \in Orderings(tools \ {tool})} : tool \in tools}

\* refresh after its await: both maps are cleared and rebuilt in one turn.
Rebuild(discovered) ==
    /\ toolsByCanonical' = discovered
    /\ \E aggregated \in Orderings(discovered) :
          toolsByOpenAiName' = Registered(aggregated, {})

\* ToolRegistry.refresh: the maps are rebuilt from what the servers offer now.
refresh(discovered) ==
    /\ Rebuild(discovered)
    /\ UNCHANGED <<storeVars, orchVars, catalog, accessOverrides, manager, feedback, execVars>>

\* describeTool: the descriptor of a registered tool, with its access level
\* (and, to tell what was classified, the tool's annotations).
describeTool(entry) ==
    [name |-> entry.name, accessLevel |-> classifyToolAccess(entry),
     annotations |-> entry.annotations]

\* getToolsCatalog: the descriptors of all registered tools.
getToolsCatalog ==
    /\ catalog' = {describeTool(entry) : entry \in toolsByCanonical}
    /\ UNCHANGED <<storeVars, orchVars, toolsByCanonical, toolsByOpenAiName, accessOverrides,
                   manager, feedback, execVars>>

\* The tool_feedback handler: apply the feedback to the stored overrides and
\* hand the result to ToolRegistry.setAccessOverrides.
ToolFeedback(role, toolName, action, level) ==
    /\ accessOverrides' = applyFeedback(accessOverrides, role, toolName, action, level)
    /\ UNCHANGED <<storeVars, orchVars, toolsByCanonical, toolsByOpenAiName, catalog,
                   manager, feedback, execVars>>

\* ToolRegistry.execute, called by the executor's loop over the tool calls of an
\* answer while it runs for the role: a name that is not registered throws (the
\* executor records the error), a registered one is handed to callTool.
ExecuteTool(role, toolName) ==
    /\ manager' =
          IF \E tool \in toolsByCanonical : tool.name = toolName
          THEN [manager EXCEPT !.invoked =
                   [role |-> role, name |-> toolName,
                    visible |-> \E tool \in getToolsForRole(role) : tool.name = toolName]]
          ELSE manager
    /\ UNCHANGED <<storeVars, orchVars, toolsByCanonical, toolsByOpenAiName, catalog,
                   accessOverrides, feedback, execVars>>

\* The objective texts: one that /\buse tools\b/i matches and one it does not.
Objectives == {"Use tools to list the files", "Summarize the design"}

\* run: const forceToolUse = /\buse tools\b/i.test(request.objective)
forceToolUse(objective) == objective = "Use tools to list the files"

\* The answers run writes itself instead of asking the backend.
ToolAccessNotReady == [json |-> TRUE, schema |-> TRUE, summary |-> TRUE, delegations |-> <<>>]
ToolAccessDisabled == [json |-> TRUE, schema |-> TRUE, summary |-> TRUE, delegations |-> <<>>]

\* run's choice of where the raw answer of a step comes from.
AnswerSource(role, objective, toolsAvailable, canUseTools) ==
    LET shouldUseTools == role \in TOOL_USING_ROLES /\ toolsAvailable /\ canUseTools
        toolAccessBlocked == role \in TOOL_USING_ROLES /\ toolsAvailable /\ ~canUseTools
        forceToolUseNoTools == forceToolUse(objective) /\ ~toolsAvailable
    IN IF forceToolUseNoTools THEN "not ready"
       ELSE IF forceToolUse(objective) /\ toolAccessBlocked THEN "disabled"
       ELSE IF shouldUseTools THEN "executor"
       ELSE "llm"

\* run from the look at the registry to the parsed answer, for a step with the
\* given objective and credentials: the tools of the role are read from the
\* registry, and the raw answer is the executor's, the direct call's, or one of
\* the two run writes itself.
ObtainAnswer(r, objective, canUseTools, raw) ==
    /\ At(r, "answer")
    /\ LET role == Top(r).role
           toolsAvailable == getToolsForRole(role) # {}
           source == AnswerSource(role, objective, toolsAvailable, canUseTools)
           obtained == [source |-> source, role |-> role,
                        forceToolUse |-> forceToolUse(objective),
                        toolsAvailable |-> toolsAvailable, canUseTools |-> canUseTools]
       IN ParseAnswer(r,
                      IF source = "not ready" THEN ToolAccessNotReady
                      ELSE IF source = "disabled" THEN ToolAccessDisabled
                      ELSE raw,
                      source = "executor",
                      [ghost EXCEPT !.obtained = obtained])

\* The orchestrator over a registry the servers' tools come and go in: requests
\* of one step, of any objective, with and without credentials.
RouteRequests == {Request(role, 0, 1, 1) : role \in RequestRoles}

NextRoute ==
    \/ \E r \in slots, sid \in ids, request \in requests : StartRun(r, sid, request)
    \/ \E r \in slots : ReadSessionLog(r)
    \/ \E r \in slots : LogRequest(r)
    \/ \E r \in slots, objective \in Objectives, canUseTools \in BOOLEAN, raw \in answers :
            ObtainAnswer(r, objective, canUseTools, raw)
    \/ \E r \in slots, raw \in reformats, threw \in BOOLEAN : RetryAnswer(r, raw, threw)
    \/ \E r \in slots : LogResponse(r)
    \/ \E r \in slots : Respond(r)
    \/ \E discovered \in DiscoveredSets : refresh(discovered)

InitRoute ==
    /\ InitStoreWith({IdA}, UniformSizes, OrchLogBytes)
    /\ InitOrchestrator({1}, RouteRequests, OrchAnswers, {NotJson})
    /\ InitRegistry
    /\ InitExecutor({1}, {1})

SpecRoute == InitRoute /\ [][NextRoute]_vars

\* C34: every step that got its raw answer got it from the backend: from the
\* tool-use executor exactly when its role is tool-using, a tool is visible to
\* it and credentials are available, and from the direct call otherwise,
\* whatever the objective says.
C34_AnswerFromBackend ==
    LET o == ghost.obtained
    IN o.source # "none" =>
          /\ o.source \in {"executor", "llm"}
          /\ o.source = "executor" <=>
                (o.role \in TOOL_USING_ROLES /\ o.toolsAvailable /\ o.canUseTools)

NextReg ==
    \/ \E discovered \in DiscoveredSets : refresh(discovered)
    \/ \E role \in FeedbackRoles, toolName \in FeedbackNames,
          action \in FeedbackActions, level \in TOOL_ACCESS_LEVELS :
            ToolFeedback(role, toolName, action, level)

InitReg ==
    /\ InitStoreWith({}, {}, MaxLogBytes)
    /\ InitOrchestrator({}, {}, {}, {})
    /\ InitRegistry
    /\ InitExecutor({1}, {1})

SpecReg == InitReg /\ [][NextReg]_vars

\* Tools of one server whose names differ only in characters that are replaced
\* by '_' and collapsed, so that their base aliases are one, and whose names
\* have one hash.
Dotted(rest) == Tool(<<"s", ":", "a">> \o rest, "none")

AliasTools ==
    {Dotted(<<".">>), Dotted(<<" ">>), Dotted(<<"_">>), Dotted(<<".", ".", ".">>),
     Dotted(<<" ", ".", " ">>)}

NextAliases == \E discovered \in SUBSET AliasTools : refresh(discovered)

SpecAliases == InitReg /\ [][NextAliases]_vars

\* C38: the aliases are at most the maximal length, and the alias map holds
\* the tools the canonical map holds: every registered tool under an alias of
\* its own. (Both maps are rebuilt in one step, so every state a call can see
\* is the state after a whole refresh.)
C38_AliasesConsistent ==
    /\ \A entry \in toolsByOpenAiName : Len(entry.openAiName) <= MaxAliasLength
    /\ {entry.name : entry \in toolsByOpenAiName} = {tool.name : tool \in toolsByCanonical}

\* Tools of every combination of hints: names that match the patterns of one
\* level, of two levels, and of none.
ClassifiedNames ==
    {Name("smart-io", "delete_", "file"), Name("smart-io", "run_", "shell"),
     Name("smart-io", "edit_", "file"), Name("smart-io", "read_", "file"),
     Name("smart-io", "fetch", "file"),
     <<"smart-io", ":", "read_", ":", "run_", "query">>,
     <<"smart-io", ":", "edit_", ":", "delete_", "file">>}

Hints == {"destructiveHint", "readOnlyHint", "openWorldHint"}

ClassifiedTools ==
    {Annotated(name, annotations) : name \in ClassifiedNames, annotations \in SUBSET Hints}

NextClassify ==
    \/ \E tool \in ClassifiedTools : refresh({tool})
    \/ getToolsCatalog

SpecClassify == InitReg /\ [][NextClassify]_vars

\* The levels whose patterns match the name.
MatchingLevels(name) ==
    {level \in TOOL_ACCESS_LEVELS : matchesTool(TOOL_LEVEL_PATTERNS[level], name)}

\* The tool of a descriptor was classified as stated: by its hints in the
\* order destructive, read-only, open-world; without hints by the highest
\* level whose patterns match its name; without a match as write.
ClassifiedAsStated(descriptor) ==
    LET matching == MatchingLevels(descriptor.name)
    IN /\ descriptor.accessLevel # "none"
       /\ descriptor.accessLevel =
            IF "destructiveHint" \in descriptor.annotations THEN "admin"
            ELSE IF "readOnlyHint" \in descriptor.annotations THEN "read"
            ELSE IF "openWorldHint" \in descriptor.annotations THEN "execute"
            ELSE IF matching # {}
            THEN CHOOSE level \in matching :
                    \A other \in matching :
                        TOOL_ACCESS_LEVEL_ORDER[other] <= TOOL_ACCESS_LEVEL_ORDER[level]
            ELSE "write"

\* C39: the access level of every descriptor of the catalog is the one the
\* classification rules give its tool, and never none.
C39_Classified == \A descriptor \in catalog : ClassifiedAsStated(descriptor)

\* The catalog describes a tool with the destructive and the read-only hint,
\* or a tool without hints whose name matches the patterns of two levels.
C39_Witness ==
    \E descriptor \in catalog :
        \/ {"destructiveHint", "readOnlyHint"} \subseteq descriptor.annotations
        \/ /\ descriptor.annotations = {}
           /\ Cardinality(MatchingLevels(descriptor.name)) = 2

\* The allow and deny feedback on the planner and on a role with static patterns.
OverrideRoles == {"planner", "code"}
OverrideActions == {"allow", "deny"}

NextOverride ==
    \/ \E discovered \in DiscoveredSets : refresh(discovered)
    \/ \E role \in OverrideRoles, toolName \in FeedbackNames,
          action \in OverrideActions :
            ToolFeedback(role, toolName, action, "read")

SpecOverride == InitReg /\ [][NextOverride]_vars

\* The roles execute runs for and the tool names the backend's tool calls carry.
ExecutingRoles == {"research", "code"}
RequestedNames == {ReadFile.name, RunShell.name, DeleteFile.name, WebSearch.name}

NextAccess ==
    \/ \E discovered \in DiscoveredSets : refresh(discovered)
    \/ \E role \in ExecutingRoles, action \in OverrideActions :
            ToolFeedback(role, RunShell.name, action, "read")
    \/ \E role \in ExecutingRoles, toolName \in RequestedNames :
            ExecuteTool(role, toolName)

SpecAccess == InitReg /\ [][NextAccess]_vars

\* ----------------------------------------------------- the feedback store

\* The inputs applyFeedback is called with: each action on one role and one
\* tool, set_level with a level and without one.
FeedbackInputs ==
    {FeedbackInput("code", RunShell.name, action, "unset") :
        action \in {"allow", "deny", "clear", "note", "set_level"}}
    \cup {FeedbackInput("code", RunShell.name, "set_level", "read")}

\* ToolFeedbackStore.readInternal: the state in the file, normalized; the empty
\* state when the file is absent.
readFeedback(file) ==
    IF file.kind = "state" THEN file.state ELSE FeedbackState(NoOverrides, <<>>)

\* The history entry applyFeedback pushes: the input and the timestamp.
FeedbackEntry(input, timestamp) == [input |-> input, timestamp |-> timestamp]

\* applyFeedback returns without writeInternal: set_level with no level, or
\* with one that is no access level.
ReturnsUnwritten(input) ==
    input.action = "set_level" /\ input.level \notin TOOL_ACCESS_LEVELS

\* AsyncLock.withLock's queue settles the fn of caller c: the next fn may run.
Unchained(chain, c) == IF chain # <<>> /\ Head(chain) = c THEN Tail(chain) ELSE chain

\* applyFeedback(input) is called: withLock chains fn to the lock's promise.
ApplyFeedback(c, input) ==
    /\ feedback.calls[c].pc = "idle"
    /\ \A d \in FeedbackCallers : d < c => feedback.calls[d].pc # "idle"
    /\ Len(feedback.issued) < MaxFeedback
    /\ feedback' = [feedback EXCEPT
                       !.calls[c] = [NoFeedbackCall EXCEPT !.pc = "queued", !.input = input],
                       !.chain = Append(@, c),
                       !.issued = Append(@, input)]
    /\ UNCHANGED <<storeVars, orchVars, toolsByCanonical, toolsByOpenAiName, catalog,
                   accessOverrides, manager, execVars>>

\* fn of the first caller of the chain, from readInternal's file read to the
\* await of writeInternal or to its early return: the entry is pushed to the
\* state read, and the overrides are changed by the action.
FeedbackBody(c) ==
    /\ feedback.chain # <<>>
    /\ Head(feedback.chain) = c
    /\ feedback.calls[c].pc = "queued"
    /\ LET input == feedback.calls[c].input
           read == readFeedback(feedback.file)
           state == FeedbackState(
                        applyFeedback(read.overrides, input.role, input.toolName,
                                      input.action, input.level),
                        Append(read.history, FeedbackEntry(input, feedback.clock)))
       IN feedback' = [feedback EXCEPT
                         !.calls[c].state = state,
                         !.calls[c].pc = IF ReturnsUnwritten(input) THEN "returned"
                                         ELSE "writing",
                         !.chain = IF ReturnsUnwritten(input) THEN Unchained(@, c) ELSE @,
                         !.clock = @ + 1]
    /\ UNCHANGED <<storeVars, orchVars, toolsByCanonical, toolsByOpenAiName, catalog,
                   accessOverrides, manager, execVars>>

\* writeInternal's writeFile completes: fn returns the state.
FeedbackWritten(c) ==
    /\ feedback.calls[c].pc = "writing"
    /\ feedback' = [feedback EXCEPT
                       !.file = FeedbackFile(feedback.calls[c].state),
                       !.calls[c].pc = "returned",
                       !.chain = Unchained(@, c)]
    /\ UNCHANGED <<storeVars, orchVars, toolsByCanonical, toolsByOpenAiName, catalog,
                   accessOverrides, manager, execVars>>

\* applyFeedback's caller has the state returned.
FeedbackReturned(c) ==
    /\ feedback.calls[c].pc = "returned"
    /\ feedback' = [feedback EXCEPT !.calls[c] = NoFeedbackCall]
    /\ UNCHANGED <<storeVars, orchVars, toolsByCanonical, toolsByOpenAiName, catalog,
                   accessOverrides, manager, execVars>>

NextFeedback ==
    \/ \E c \in FeedbackCallers, input \in FeedbackInputs : ApplyFeedback(c, input)
    \/ \E c \in FeedbackCallers : FeedbackBody(c)
    \/ \E c \in FeedbackCallers : FeedbackWritten(c)
    \/ \E c \in FeedbackCallers : FeedbackReturned(c)

SpecFeedback == InitReg /\ [][NextFeedback]_vars

\* ----------------------------------------------------- the client manager

\* The options the client manager is constructed with: retries from 0 up, a
\* retry delay or none, and timeouts that are positive or 0.
ManagerOptions ==
    [toolCallTimeoutMs : {0, TimeoutMs}, listToolsTimeoutMs : {0, TimeoutMs},
     toolCallRetries : 0..MaxToolCallRetries, toolCallRetryDelayMs : {0, RetryDelayMs}]

\* The messages of the errors a tool call request is rejected with, and the
\* message of withTimeout's error.
RequestErrors == {"Rate limit exceeded", "HTTP 429", "connection reset"}
TimedOut == "tool call smart-io:read_file timed out after 5ms"

\* isThrottlingError: /throttled|rate limit|429/i tested on the message.
isThrottlingError(error) == error \in {"Rate limit exceeded", "HTTP 429"}

\* withTimeout: whether a timer is set (not for a timeout that is not finite
\* or not positive: the promise is returned as it is).
withTimeout(timeoutMs) == timeoutMs > 0

\* callWithRetry calls operation(): the request is sent and withTimeout wraps it.
Operation(call, stuck) ==
    [call EXCEPT !.pc = "operation", !.attempts = @ + 1, !.stuck = stuck,
                 !.timer = withTimeout(manager.toolCallTimeoutMs)]

\* Caught that retries after any error while retries are left.
CaughtRetryingAll(call, error, stuck) ==
    LET caught == [call EXCEPT !.errors = Append(@, error), !.stuck = FALSE,
                               !.timer = FALSE]
    IN IF call.attempt >= manager.toolCallRetries
       THEN [caught EXCEPT !.pc = "threw", !.error = error]
       ELSE LET retry == [caught EXCEPT !.attempt = @ + 1]
            IN IF manager.toolCallRetryDelayMs > 0
               THEN [retry EXCEPT !.pc = "delay",
                                  !.waits = Append(@, manager.toolCallRetryDelayMs
                                                        * retry.attempt)]
               ELSE Operation([retry EXCEPT !.waits = Append(@, 0)], stuck)

\* callWithRetry's catch: throw the error when the retries are used up or it is
\* no throttling error; else count the retry and await the delay, or call
\* operation() again at once when the delay is 0.
Caught(call, error, stuck) ==
    LET caught == [call EXCEPT !.errors = Append(@, error), !.stuck = FALSE,
                               !.timer = FALSE]
    IN IF call.attempt >= manager.toolCallRetries \/ ~isThrottlingError(error)
       THEN [caught EXCEPT !.pc = "threw", !.error = error]
       ELSE LET retry == [caught EXCEPT !.attempt = @ + 1]
            IN IF manager.toolCallRetryDelayMs > 0
               THEN [retry EXCEPT !.pc = "delay",
                                  !.waits = Append(@, manager.toolCallRetryDelayMs
                                                        * retry.attempt)]
               ELSE Operation([retry EXCEPT !.waits = Append(@, 0)], stuck)

\* callTool(toolName, args) is called: it throws for a tool that does not
\* resolve, else calls callWithRetry.
CallTool(resolved, stuck) ==
    /\ manager.call.pc = "idle"
    /\ manager' = [manager EXCEPT !.call =
                      IF resolved THEN Operation(NoCall, stuck)
                      ELSE [NoCall EXCEPT !.pc = "threw", !.error = "Tool not found"]]
    /\ UNCHANGED <<storeVars, orchVars, toolsByCanonical, toolsByOpenAiName, catalog,
                   accessOverrides, feedback, execVars>>

\* The request of the attempt under way completes with a result.
RequestResolves ==
    /\ manager.call.pc = "operation"
    /\ ~manager.call.stuck
    /\ manager' = [manager EXCEPT !.call.pc = "returned", !.call.timer = FALSE]
    /\ UNCHANGED <<storeVars, orchVars, toolsByCanonical, toolsByOpenAiName, catalog,
                   accessOverrides, feedback, execVars>>

\* The request of the attempt under way is rejected.
RequestRejects(error, stuck) ==
    /\ manager.call.pc = "operation"
    /\ ~manager.call.stuck
    /\ manager' = [manager EXCEPT !.call = Caught(@, error, stuck)]
    /\ UNCHANGED <<storeVars, orchVars, toolsByCanonical, toolsByOpenAiName, catalog,
                   accessOverrides, feedback, execVars>>

\* withTimeout's timer fires before the request has completed.
TimerFires(stuck) ==
    /\ manager.call.pc = "operation"
    /\ manager.call.timer
    /\ manager' = [manager EXCEPT !.call = Caught(@, TimedOut, stuck)]
    /\ UNCHANGED <<storeVars, orchVars, toolsByCanonical, toolsByOpenAiName, catalog,
                   accessOverrides, feedback, execVars>>

\* callWithRetry's delay has passed: the loop calls operation() again.
DelayElapsed(stuck) ==
    /\ manager.call.pc = "delay"
    /\ manager' = [manager EXCEPT !.call = Operation(@, stuck)]
    /\ UNCHANGED <<storeVars, orchVars, toolsByCanonical, toolsByOpenAiName, catalog,
                   accessOverrides, feedback, execVars>>

\* callTool's caller has its result or its error.
CallSettled ==
    /\ manager.call.pc \in {"returned", "threw"}
    /\ manager' = [manager EXCEPT !.call = NoCall]
    /\ UNCHANGED <<storeVars, orchVars, toolsByCanonical, toolsByOpenAiName, catalog,
                   accessOverrides, feedback, execVars>>

NextCall ==
    \/ \E resolved \in BOOLEAN, stuck \in BOOLEAN : CallTool(resolved, stuck)
    \/ RequestResolves
    \/ \E error \in RequestErrors, stuck \in BOOLEAN : RequestRejects(error, stuck)
    \/ \E stuck \in BOOLEAN : TimerFires(stuck)
    \/ \E stuck \in BOOLEAN : DelayElapsed(stuck)
    \/ CallSettled

\* A client manager constructed with any of the options.
InitCall ==
    /\ InitStoreWith({}, {}, MaxLogBytes)
    /\ InitOrchestrator({}, {}, {}, {})
    /\ InitExecutor({1}, {1})
    /\ toolsByCanonical = {}
    /\ toolsByOpenAiName = {}
    /\ catalog = {}
    /\ accessOverrides = NoOverrides
    /\ \E options \in ManagerOptions : manager = McpClientManager(options)
    /\ feedback = ToolFeedbackStore

\* Timers fire and delays pass; a request may never complete.
FairCall ==
    /\ WF_vars(\E stuck \in BOOLEAN : TimerFires(stuck))
    /\ WF_vars(\E stuck \in BOOLEAN : DelayElapsed(stuck))

SpecCall == InitCall /\ [][NextCall]_vars /\ FairCall

\* The servers in the order of the servers map, and what each may list.
ServerOrder == <<"smart-io", "brave">>
Listings(server) ==
    IF server = "smart-io" THEN {{ReadFile}, {ReadFile, RunShell}} ELSE {{}, {WebSearch}}

\* getAllTools: every tool of every server's tools list.
getAllTools(tools) == UNION {tools[server] : server \in Servers}

\* refresh calls refreshTools, which calls listAllTools for the first server.
RefreshStart(stuck) ==
    /\ manager.refresh.pc \in {"idle", "done"}
    /\ manager' = [manager EXCEPT !.refresh =
                      [NoRefresh EXCEPT !.pc = "listing", !.todo = ServerOrder,
                                        !.stuck = stuck,
                                        !.timer = withTimeout(manager.listToolsTimeoutMs)]]
    /\ UNCHANGED <<storeVars, orchVars, toolsByCanonical, toolsByOpenAiName, catalog,
                   accessOverrides, feedback, execVars>>

\* refreshTools after its await of listAllTools for Head(todo): the list is
\* assigned to server.tools, or the error is caught and logged; then the next
\* server is listed, or refreshTools returns and refresh rebuilds its maps from
\* getAllTools.
ListingEnds(ok, listedTools, stuck) ==
    LET server == Head(manager.refresh.todo)
        rest == Tail(manager.refresh.todo)
        tools == IF ok THEN [manager.tools EXCEPT ![server] = listedTools]
                 ELSE manager.tools
    IN /\ manager' = [manager EXCEPT
                        !.tools = tools,
                        !.refresh = [@ EXCEPT
                            !.listed[server] = IF ok THEN "ok" ELSE "failed",
                            !.fresh[server] = IF ok THEN listedTools ELSE {},
                            !.todo = rest,
                            !.pc = IF rest = <<>> THEN "done" ELSE "listing",
                            !.stuck = rest # <<>> /\ stuck,
                            !.timer = rest # <<>> /\ withTimeout(manager.listToolsTimeoutMs)]]
       /\ IF rest = <<>> THEN Rebuild(getAllTools(tools))
          ELSE UNCHANGED <<toolsByCanonical, toolsByOpenAiName>>
       /\ UNCHANGED <<storeVars, orchVars, catalog, accessOverrides, feedback, execVars>>

\* The listTools request completes with the server's tools.
ListToolsResolves(listedTools, stuck) ==
    /\ manager.refresh.pc = "listing"
    /\ ~manager.refresh.stuck
    /\ listedTools \in Listings(Head(manager.refresh.todo))
    /\ ListingEnds(TRUE, listedTools, stuck)

\* The listTools request is rejected.
ListToolsRejects(stuck) ==
    /\ manager.refresh.pc = "listing"
    /\ ~manager.refresh.stuck
    /\ ListingEnds(FALSE, {}, stuck)

\* withTimeout's timer fires before the listTools request has completed.
ListTimerFires(stuck) ==
    /\ manager.refresh.pc = "listing"
    /\ manager.refresh.timer
    /\ ListingEnds(FALSE, {}, stuck)

NextRefresh ==
    \/ \E stuck \in BOOLEAN : RefreshStart(stuck)
    \/ \E listedTools \in {{}, {ReadFile}, {ReadFile, RunShell}, {WebSearch}},
          stuck \in BOOLEAN : ListToolsResolves(listedTools, stuck)
    \/ \E stuck \in BOOLEAN : ListToolsRejects(stuck)
    \/ \E stuck \in BOOLEAN : ListTimerFires(stuck)

SpecRefresh == InitCall /\ [][NextRefresh]_vars

\* ------------------------------------------------------ the tool-use executor

\* The largest limits of an executor, and the most tool calls one answer of the
\* backend asks for.
MaxIterations == 3
MaxToolCallsPerIteration == 2
MaxRequested == 3

\* The tool calls an answer can carry: for each, whether its arguments parse.
ToolCallLists ==
    UNION {[1..n -> {"good", "bad"}] : n \in 0..MaxRequested}

\* The content of an answer: not a string, a blank string, or text.
Contents == {"null", "blank", "text"}

\* The loop condition with one iteration too many.
BudgetLeftOneMore(iteration, maxIterations) == iteration <= maxIterations

\* The loop condition: iteration < this.maxIterations.
BudgetLeft(iteration, maxIterations) == iteration < maxIterations

\* The values options.responseFormat can have.
Formats == {"json", "text", "unset"}

\* Text of the backend as final content: blank or not.
BackendText(nonBlank) ==
    [kind |-> "text", blank |-> ~nonBlank, summary |-> "none", notes |-> 0,
     delegations |-> 0]

Min(a, b) == IF a < b THEN a ELSE b

\* buildFallbackContent: a fixed sentence unless the format is 'json'; else the
\* JSON text of an object with a summary chosen by the history, the notes (the
\* last three results, the last two errors, or one note that there is nothing to
\* report) and no delegations.
buildFallbackContent(format, history) ==
    IF format # "json"
    THEN [kind |-> "sentence", blank |-> FALSE, summary |-> "none", notes |-> 0,
     delegations |-> 0]
    ELSE LET successfulCalls == {i \in 1..Len(history) : ~history[i].error}
             failedCalls == {i \in 1..Len(history) : history[i].error}
             summary ==
                 IF Len(history) = 0 THEN "empty response"
                 ELSE IF Cardinality(failedCalls) = Len(history) THEN "all failed"
                 ELSE IF Cardinality(successfulCalls) > 0 THEN "not synthesized"
                 ELSE "no final answer"
             notes == Min(Cardinality(successfulCalls), 3) + Min(Cardinality(failedCalls), 2)
         IN [kind |-> "object", blank |-> FALSE, summary |-> summary,
             notes |-> IF notes = 0 THEN 1 ELSE notes, delegations |-> 0]

\* retrySynthesis: the content of the follow-up's answer if it is a string that
\* is not blank, else null (also when the call threw).
retrySynthesis(outcome) == outcome = "text"

\* execute returns lastContent whatever it is.
ReturnContentAsIs(e, iterations) ==
    [e EXCEPT !.pc = "done",
              !.result = [content |-> "lastContent", iterations |-> iterations,
                          finalContent |-> BackendText(e.lastContent)]]

\* execute returns: lastContent if it is not blank, else the fallback content.
ReturnContent(e, iterations) ==
    [e EXCEPT !.pc = "done",
              !.result = [content |-> IF e.lastContent THEN "lastContent" ELSE "fallback",
                          iterations |-> iterations,
                          finalContent |->
                              IF e.lastContent THEN BackendText(e.lastContent)
                              ELSE buildFallbackContent(e.responseFormat,
                                                        e.toolCallHistory)]]

\* The end of execute that asks for a synthesis whenever the content is blank.
FinishWithoutHistory(e, iterations) ==
    IF ~e.lastContent
    THEN [e EXCEPT !.pc = "synthesis", !.synthesisCalls = @ + 1,
                   !.synthesis = [tools |-> "empty", toolChoice |-> "none"],
                   !.result = [content |-> "none", iterations |-> iterations,
                               finalContent |-> NoFinalContent]]
    ELSE ReturnContent(e, iterations)

\* The end of execute, in the loop or after it: with tool history and no
\* content, await retrySynthesis first; else return.
Finish(e, iterations) ==
    IF ~e.lastContent /\ Len(e.toolCallHistory) > 0
    THEN [e EXCEPT !.pc = "synthesis", !.synthesisCalls = @ + 1,
                   !.synthesis = [tools |-> "empty", toolChoice |-> "none"],
                   !.result = [content |-> "none", iterations |-> iterations,
                               finalContent |-> NoFinalContent]]
    ELSE ReturnContent(e, iterations)

\* The head of the loop: call the backend while the budget lasts, else finish
\* with iterations = maxIterations.
LoopHead(e) ==
    IF BudgetLeft(e.iteration, e.maxIterations)
    THEN [e EXCEPT !.pc = "backend", !.llmCalls = @ + 1, !.toolCalls = 0,
                   !.fed = Len(e.messages)]
    ELSE Finish([e EXCEPT !.exhausted = TRUE], e.maxIterations)

\* call.id of the bounded tool call being handled: the calls of this answer
\* already handled are those with a tool message, the rest is the batch.
CallId(e) ==
    <<e.llmCalls,
      Cardinality({i \in 1..Len(e.answered) : e.answered[i][1] = e.llmCalls}) + 1>>

\* A tool call is recorded and the calls after an error are dropped.
HandledAborting(e, executed, error) ==
    [e EXCEPT !.batch = IF error THEN <<>> ELSE Tail(@),
              !.answered = Append(@, CallId(e)),
              !.messages = Append(@, IF error THEN "Error:" ELSE "result"),
              !.toolCallHistory = Append(@, [executed |-> executed, error |-> error])]

\* A tool call is recorded: its tool message is pushed (the error text after
\* 'Error: ', or the result), then its history entry, and the loop over the
\* calls goes on to the next one.
Handled(e, executed, error) ==
    [e EXCEPT !.batch = Tail(@),
              !.answered = Append(@, CallId(e)),
              !.messages = Append(@, IF error THEN "Error:" ELSE "result"),
              !.toolCallHistory = Append(@, [executed |-> executed, error |-> error])]

RECURSIVE HandleCalls(_)
\* The loop over the bounded tool calls up to its next await: a call whose
\* arguments do not parse is recorded with its error; a call whose arguments
\* parse is run (await toolRegistry.execute); after the last, the next iteration.
HandleCalls(e) ==
    IF e.batch = <<>>
    THEN LoopHead([e EXCEPT !.iteration = @ + 1])
    ELSE IF Head(e.batch) = "bad"
    THEN HandleCalls(Handled(e, FALSE, TRUE))
    ELSE [e EXCEPT !.pc = "tool", !.toolCalls = @ + 1, !.executed = @ + 1]

\* boundedToolCalls without the slice: every tool call of the answer.
boundedToolCallsAll(toolCalls, maxToolCallsPerIteration) == toolCalls

\* toolCalls.slice(0, maxToolCallsPerIteration), for a limit of at least 0.
boundedToolCalls(toolCalls, maxToolCallsPerIteration) ==
    SubSeq(toolCalls, 1,
           IF Len(toolCalls) < maxToolCallsPerIteration THEN Len(toolCalls)
           ELSE maxToolCallsPerIteration)

\* execute is called, up to its first await.
Execute(responseFormat) ==
    /\ execution.pc = "idle"
    /\ execution' = LoopHead([Executor(execution.maxIterations,
                                       execution.maxToolCallsPerIteration)
                                 EXCEPT !.responseFormat = responseFormat])
    /\ UNCHANGED <<storeVars, orchVars, regVars>>

\* The backend answers in the loop: with content, a finish reason and tool
\* calls. Without tool calls or at 'stop' execute ends; else it handles the
\* bounded tool calls.
BackendReturns(content, stop, toolCalls) ==
    /\ execution.pc = "backend"
    /\ LET e == [execution EXCEPT
                    !.lastContent = IF content = "null" THEN @ ELSE content = "text",
                    !.lastFresh = content # "null",
                    !.produced = @ \/ content = "text"]
       IN execution' =
            IF stop \/ toolCalls = <<>>
            THEN Finish(e, e.iteration + 1)
            ELSE LET boundedCalls ==
                         boundedToolCalls(toolCalls, e.maxToolCallsPerIteration)
                 IN HandleCalls([e EXCEPT !.batch = boundedCalls,
                                          !.bounded = @ + Len(boundedCalls),
                                          !.recorded =
                                              @ \o [k \in 1..Len(boundedCalls) |->
                                                       <<e.llmCalls, k>>],
                                          !.messages = Append(@, "assistant")])
    /\ UNCHANGED <<storeVars, orchVars, regVars>>

\* toolRegistry.execute returns or throws (the error is caught and recorded);
\* the call is pushed on the history and the loop over the calls goes on.
ToolReturns(threw) ==
    /\ execution.pc = "tool"
    /\ execution' = HandleCalls(Handled(execution, TRUE, threw))
    /\ UNCHANGED <<storeVars, orchVars, regVars>>

\* The outcomes of the synthesis follow-up's backend call.
SynthesisOutcomes == Contents \cup {"threw"}

\* retrySynthesis returns; execute returns the synthesized content if there is
\* one, else falls back.
SynthesisReturns(outcome) ==
    /\ execution.pc = "synthesis"
    /\ execution' =
            IF retrySynthesis(outcome)
            THEN [execution EXCEPT !.pc = "done", !.result.content = "synthesized",
                                   !.result.finalContent = BackendText(TRUE)]
            ELSE ReturnContent(execution, execution.result.iterations)
    /\ UNCHANGED <<storeVars, orchVars, regVars>>

\* The caller has taken the result; the executor is free for the next call.
TakeResult ==
    /\ execution.pc = "done"
    /\ execution' = Executor(execution.maxIterations, execution.maxToolCallsPerIteration)
    /\ UNCHANGED <<storeVars, orchVars, regVars>>

NextExec ==
    \/ \E responseFormat \in Formats : Execute(responseFormat)
    \/ \E content \in Contents, stop \in BOOLEAN, toolCalls \in ToolCallLists :
            BackendReturns(content, stop, toolCalls)
    \/ \E threw \in BOOLEAN : ToolReturns(threw)
    \/ \E outcome \in SynthesisOutcomes : SynthesisReturns(outcome)
    \/ TakeResult

InitExec ==
    /\ InitStoreWith({}, {}, MaxLogBytes)
    /\ InitOrchestrator({}, {}, {}, {})
    /\ InitRegistry
    /\ InitExecutor(1..MaxIterations, 1..MaxToolCallsPerIteration)

SpecExec == InitExec /\ [][NextExec]_vars

\* Every backend call, tool call and synthesis follow-up of execute returns.
FairExec ==
    /\ WF_vars(\E content \in Contents, stop \in BOOLEAN, toolCalls \in ToolCallLists :
                    BackendReturns(content, stop, toolCalls))
    /\ WF_vars(\E threw \in BOOLEAN : ToolReturns(threw))
    /\ WF_vars(\E outcome \in SynthesisOutcomes : SynthesisReturns(outcome))

SpecExecLive == SpecExec /\ FairExec

\* ------------------------------------------------- claims: the tool registry

\* C4: for every role, every override state and every discovered tool set, each
\* tool getToolsForRole returns has a tier less than or equal to the role's
\* effective ceiling (the level override if set, else the default), tools that
\* match an allow pattern of the role included.
C4_TierCeiling ==
    \A role \in Roles : \A tool \in getToolsForRole(role) :
        TOOL_ACCESS_LEVEL_ORDER[classifyToolAccess(tool)]
            <= TOOL_ACCESS_LEVEL_ORDER[getEffectiveAccessLevel(role)]

\* C5: for every role, a tool whose name matches one of the role's deny patterns
\* is never returned by getToolsForRole, whether the static patterns or an allow
\* pattern selected it.
C5_DenyWins ==
    \A role \in Roles : \A tool \in toolsByCanonical :
        isDenied(role, tool.name) => tool \notin getToolsForRole(role)

\* A registered tool within the role's level that the static patterns, an allow
\* pattern and a deny pattern all match, while the role still gets another tool.
C5_Witness ==
    \E role \in Roles : \E tool \in toolsByCanonical :
        /\ tool \in baseTools(role)
        /\ isAllowed(role, tool.name)
        /\ isDenied(role, tool.name)
        /\ tool \notin getToolsForRole(role)

\* C24: for every role that has an allow-pattern override, the planner with
\* its empty static pattern list included, every registered tool whose name
\* matches one of the role's allow patterns and none of its deny patterns is
\* returned by getToolsForRole.
C24_AllowAdds ==
    \A role \in Roles : \A tool \in toolsByCanonical :
        /\ accessOverrides.allow[role] # {}
        /\ isAllowed(role, tool.name)
        /\ ~isDenied(role, tool.name)
        => tool \in getToolsForRole(role)

\* C31: a tool invoked for a role's execute call is one of the tools visible to
\* that role (getToolsForRole) when it is invoked.
C31_InvokedIsVisible == manager.invoked.visible

\* -------------------------------------------------- claims: the orchestrator

\* C1: for every session id, under any interleaving of run calls on that id,
\* top-level and delegated, the number of steps admitted since the last
\* resetSessionAgentCount never exceeds maxAgentsPerSession.
C1_QuotaNeverExceeded ==
    \A sid \in IdUniverse :
        /\ admitted[sid] <= MaxAgents
        /\ sessionAgentCounts[sid] <= MaxAgents

\* The quota is used up by two interleaved requests, one of which has admitted a
\* delegated step, and the other was refused.
C1_Witness ==
    /\ admitted[IdA] = MaxAgents
    /\ \E r \in Runs : rstatus[r] = "running" /\ Len(rstack[r]) = 2
    /\ \E r \in Runs : rstatus[r] = "failed"

\* The results run has returned to the handlers.
Returned == {rresult[r] : r \in {q \in Runs : rresult[q] # NoResult}}

RECURSIVE DepthsStep(_)
\* In a result tree: each child is one deeper than its parent, and every step
\* is below maxDepth.
DepthsStep(result) ==
    /\ result.depth < result.maxDepth
    /\ \A i \in 1..Len(result.children) :
        /\ result.children[i].depth = result.depth + 1
        /\ DepthsStep(result.children[i])

RECURSIVE Height(_)
\* The number of levels of a result tree.
Height(result) ==
    IF result.children = <<>> THEN 1
    ELSE 1 + Height(result.children[
             CHOOSE i \in 1..Len(result.children) :
                 \A j \in 1..Len(result.children) :
                     Height(result.children[j]) <= Height(result.children[i])])

\* C12: after session_clear has completed for a session id with no run in
\* flight on it, read of that id returns the empty list and the id's agent count
\* is reset, so that a run which was being rejected with the quota error is
\* admitted again.
C12_ClearResets ==
    \A sid \in ghost.cleared :
        /\ readInternal(files[sessionPath(sid)]) = <<>>
        /\ sessionAgentCounts[sid] = 0
        /\ ~AgentLimitReached(sessionAgentCounts[sid])

\* session_clear has completed while a run that was rejected for the quota has
\* not answered its caller yet.
C12_Witness ==
    /\ IdA \in ghost.cleared
    /\ \E r \in Runs : rstatus[r] = "failed" /\ rsid[r] = IdA

\* C13 (as stated): run is rejected with the agent-limit error on exactly the
\* attempt that would make the number of results produced for the session
\* exceed the ceiling, and on no earlier attempt: a run is admitted whenever
\* fewer results than the ceiling have been produced since the last reset.
C13_RejectedAtResultCeiling ==
    ghost.attempt.made =>
        (ghost.attempt.rejected <=> ghost.attempt.produced >= MaxAgents)

\* C13 (amended): run is rejected on exactly the attempt made when the number
\* of steps admitted on the session since the last reset has reached the
\* ceiling, whether or not those steps went on to produce a result.
C13_RejectedAtAdmissionCeiling ==
    ghost.attempt.made =>
        (ghost.attempt.rejected <=> ghost.attempt.admitted >= MaxAgents)

\* A run call is rejected while fewer results than the ceiling have been
\* produced.
C13_Witness ==
    /\ ghost.attempt.made
    /\ ghost.attempt.rejected
    /\ ghost.attempt.admitted = MaxAgents
    /\ ghost.attempt.produced < MaxAgents

\* The frames of run r that have parsed their answer: they sit at the loop over
\* the delegations, or are about to append their response.
Parsed(r) ==
    {i \in 1..Len(rstack[r]) : rstack[r][i].pc \in {"children", "respond"}}

\* The note of a fallback: the answer had validation errors or was not JSON.
Explained(frame) ==
    \E i \in 1..Len(frame.notes) :
        frame.notes[i].kind \in {"validation errors", "not valid JSON"}

\* C14: a step whose first answer failed schema validation has made exactly
\* one reformatting call to the backend, whether the answer came from the
\* tool-use executor or from the direct call; and when no valid answer was
\* obtained, the step goes on with an explanatory note and no delegations.
C14_RetriedOnce ==
    \A r \in Runs : \A i \in Parsed(r) :
        LET frame == rstack[r][i]
        IN /\ frame.schema # "valid" => frame.retried = 1
           /\ frame.schema = "fallback"
                => Explained(frame) /\ frame.delegations = <<>>

\* What the claim asks of a step whose answer is text that is not JSON: its
\* summary is that text, it has no delegations and no children, and a note
\* flags the invalid JSON.
RawTextKept(step) ==
    /\ step.summary = step.raw.text
    /\ step.delegations = <<>>
    /\ step.children = <<>>
    /\ \E i \in 1..Len(step.notes) : step.notes[i].kind = "not valid JSON"

\* C15: a step whose answer is not valid JSON, and whose reformatting retry (if
\* one is made) yields no valid answer, goes on to its response without
\* throwing, and the result run returns has the raw text as summary, no
\* delegations, no children and a note flagging the invalid JSON.
C15_NotJsonFallback ==
    \A r \in Runs :
        /\ \A i \in Parsed(r) :
             ~rstack[r][i].raw.json
                => /\ RawTextKept(rstack[r][i])
                   /\ rstack[r][i].pc = "respond"
                   /\ rstatus[r] = "running"
        /\ rstatus[r] = "returned" /\ ~rresult[r].raw.json => RawTextKept(rresult[r])

\* A step whose first answer and whose reformatted answer were both not JSON
\* has gone on to its response with the raw text as summary.
C15_Witness ==
    \E r \in Runs : \E i \in Parsed(r) :
        /\ ~rstack[r][i].raw.json
        /\ rstack[r][i].retry = "not valid JSON"
        /\ RawTextKept(rstack[r][i])

RECURSIVE OnlyPlannerDelegates(_)
\* In a result tree: every step of a role other than planner has no delegations
\* and no children.
OnlyPlannerDelegates(result) ==
    /\ result.role # "planner"
         => result.delegations = <<>> /\ result.children = <<>>
    /\ \A i \in 1..Len(result.children) : OnlyPlannerDelegates(result.children[i])

SkipNotes(step) ==
    {n \in 1..Len(step.notes) : step.notes[n].kind = "delegations skipped"}

\* C17: a step that may delegate and whose answer declares more delegations
\* (all of known roles) than its max fan-out m honors exactly the first m of them
\* in the order declared, carries exactly one note about skipped delegations,
\* with the number declared minus m, runs its children for the honored
\* delegations in order, and has exactly m children when its result is built.
C17_TruncatedToFirst ==
    \A r \in Runs : \A i \in Parsed(r) :
        LET frame == rstack[r][i]
            k == Len(frame.declared)
            m == frame.maxDelegations
        IN AllowDelegation(frame.role, frame.depth, frame.maxDepth) /\ k > m
            => /\ frame.delegations = SubSeq(frame.declared, 1, m)
               /\ Cardinality(SkipNotes(frame)) = 1
               /\ \A n \in SkipNotes(frame) : frame.notes[n].count = k - m
               /\ Len(frame.children) <= m
               /\ \A c \in 1..Len(frame.children) :
                    frame.children[c].role = frame.declared[c]
               /\ frame.pc = "respond" => Len(frame.children) = m

\* A planner that declared three delegations with a max fan-out of two is
\* building its result with two children.
C17_Witness ==
    \E r \in Runs : \E i \in Parsed(r) :
        LET frame == rstack[r][i]
        IN /\ frame.pc = "respond"
           /\ AllowDelegation(frame.role, frame.depth, frame.maxDepth)
           /\ Len(frame.declared) = 3
           /\ frame.maxDelegations = 2
           /\ Len(frame.children) = 2
           /\ frame.children[1].role # frame.children[2].role

\* The steps of run r that are awaiting an answer of the backend.
AwaitingBackend(r) ==
    {i \in 1..Len(rstack[r]) : rstack[r][i].pc \in {"answer", "retry"}}

\* C18: within one top-level run the children run one after the other: every
\* step but the innermost is awaiting the child it started, that child is the
\* step for its next delegation, i.e. the one after those whose results (with
\* their subtrees) it already holds, and at most one step of the tree is
\* awaiting the backend.
C18_Sequential ==
    \A r \in Runs :
        /\ Cardinality(AwaitingBackend(r)) <= 1
        /\ \A i \in 1..(Len(rstack[r]) - 1) :
             LET parent == rstack[r][i]
                 child == rstack[r][i + 1]
                 started == Len(parent.children) + 1
             IN /\ parent.pc = "children"
                /\ started <= Len(parent.delegations)
                /\ child.role = parent.delegations[started]
                /\ child.depth = parent.depth + 1

\* The step for a second delegation is awaiting the backend after the step for
\* the first one, which had a child of its own, has returned.
C18_Witness ==
    \E r \in Runs :
        /\ Len(rstack[r]) = 2
        /\ Len(rstack[r][1].children) = 1
        /\ Height(rstack[r][1].children[1]) = 2
        /\ rstack[r][2].pc = "answer"

\* C19: when a step below the root has raised (the backend or the store
\* failed under it, or its call was rejected with the quota error), the run's
\* outermost call has rejected with that same error, no step of the run is
\* left to start a further delegation, and the run has returned no result.
C19_ChildErrorPropagates ==
    \A r \in Runs :
        ghost.raised[r].depth > 0
            => /\ ghost.thrown[r] = ghost.raised[r].error
               /\ rstatus[r] = "failed"
               /\ rstack[r] = <<>>
               /\ rresult[r] = NoResult

\* The step of a first delegation raised a backend error while its parent had
\* a second delegation to run.
C19_Witness ==
    \E r \in Runs :
        /\ ghost.raised[r].error = "backend"
        /\ ghost.raised[r].depth = 1
        /\ ghost.raised[r].pending > 0
        /\ ghost.thrown[r] = "backend"

\* An execute call is under way: it awaits the backend, a tool or the synthesis.
Executing == execution.pc \in {"backend", "tool", "synthesis"}

\* The limits one execute call keeps, and what it returns.
ExecuteWithinLimits ==
    /\ execution.llmCalls <= execution.maxIterations
    /\ execution.synthesisCalls <= 1
    /\ execution.toolCalls <= execution.maxToolCallsPerIteration
    /\ execution.pc = "done"
         => /\ execution.result.content \in {"lastContent", "synthesized", "fallback"}
            /\ execution.result.iterations \in 1..execution.maxIterations
            /\ execution.exhausted
                 => execution.result.iterations = execution.maxIterations

\* C20: one execute call makes at most maxIterations backend calls in its loop
\* and at most one synthesis follow-up, runs at most maxToolCallsPerIteration
\* tool calls per iteration, and, every backend and tool call returning, ends by
\* returning a result, also when the iteration budget is spent.
C20_BoundedAndReturns ==
    /\ []ExecuteWithinLimits
    /\ Executing ~> execution.pc = "done"

\* execute has returned after spending its whole budget of more than one
\* iteration and one synthesis follow-up.
C20_Witness ==
    /\ execution.pc = "done"
    /\ execution.exhausted
    /\ execution.maxIterations > 1
    /\ execution.llmCalls = execution.maxIterations
    /\ execution.synthesisCalls = 1
    /\ Len(execution.toolCallHistory) > execution.maxToolCallsPerIteration

\* The tool messages among the messages of the execute call, in order.
ToolMessages ==
    LET tool == {i \in 1..Len(execution.messages) : execution.messages[i] # "assistant"}
        RECURSIVE Pick(_)
        Pick(n) == IF n = 0 THEN <<>>
                   ELSE IF n \in tool THEN Append(Pick(n - 1), execution.messages[n])
                   ELSE Pick(n - 1)
    IN Pick(Len(execution.messages))

\* C21: a tool call whose arguments do not parse, or whose execution raises,
\* does not end the loop: each call handled so far has exactly one tool
\* message and one history entry, the message begins with 'Error:' exactly when
\* the entry has its error set, a call that was not run has its error set, the
\* tool was run for exactly the entries that say so, every bounded call of a turn
\* is handled whatever became of the ones before it, and the next backend call
\* is handed all these messages.
C21_ToolErrorsCaptured ==
    LET history == execution.toolCallHistory
    IN /\ Len(ToolMessages) = Len(history)
       /\ \A i \in 1..Len(history) :
            /\ (ToolMessages[i] = "Error:") <=> history[i].error
            /\ ~history[i].executed => history[i].error
       /\ Cardinality({i \in 1..Len(history) : history[i].executed})
            = execution.executed - (IF execution.pc = "tool" THEN 1 ELSE 0)
       /\ Len(history) + Len(execution.batch) = execution.bounded
       /\ execution.pc # "tool" => execution.batch = <<>>
       /\ execution.pc = "backend" => execution.fed = Len(execution.messages)

\* The backend is called again after a turn whose first call had malformed
\* arguments and was not run, and whose second call was run and raised.
C21_Witness ==
    /\ execution.pc = "backend"
    /\ Len(execution.toolCallHistory) = 2
    /\ execution.toolCallHistory[1] = [executed |-> FALSE, error |-> TRUE]
    /\ execution.toolCallHistory[2] = [executed |-> TRUE, error |-> TRUE]
    /\ ToolMessages = <<"Error:", "Error:">>
    /\ execution.fed = 3

\* The loop of the execute call has ended: by a return in it or by its condition.
LoopEnded == execution.pc \in {"synthesis", "done"}

\* C22: when the loop has ended with no text produced by any of its answers and
\* a tool call in the history, exactly one synthesis call has been made; the
\* synthesis call is given an empty tool list and the tool choice 'none'; no
\* execute call makes more than one; and none is made with an empty history.
C22_OneSynthesis ==
    /\ execution.synthesisCalls <= 1
    /\ LoopEnded /\ ~execution.produced /\ Len(execution.toolCallHistory) > 0
         => execution.synthesisCalls = 1
    /\ execution.synthesisCalls = 1
         => /\ LoopEnded
            /\ execution.synthesis = [tools |-> "empty", toolChoice |-> "none"]
            /\ Len(execution.toolCallHistory) > 0
    /\ execution.synthesisCalls = 0 => execution.synthesis = NoSynthesis
    /\ Len(execution.toolCallHistory) = 0 => execution.synthesisCalls = 0

\* An answer without tool calls and without text, after a tool was run, ended
\* the loop within the budget, and the synthesis gave the final content.
C22_Witness ==
    /\ execution.pc = "done"
    /\ ~execution.exhausted
    /\ ~execution.produced
    /\ execution.executed > 0
    /\ execution.synthesisCalls = 1
    /\ execution.result.content = "synthesized"

\* C23: the final content execute returns is never blank; when neither the
\* loop nor a synthesis follow-up gave text and the format is 'json', it is the
\* JSON text of an object with a summary, at least one note and no delegations.
C23_NeverBlank ==
    execution.pc = "done"
        => /\ ~execution.result.finalContent.blank
           /\ execution.result.content = "fallback" /\ execution.responseFormat = "json"
                => /\ execution.result.finalContent.kind = "object"
                   /\ execution.result.finalContent.summary # "none"
                   /\ execution.result.finalContent.notes >= 1
                   /\ execution.result.finalContent.delegations = 0

\* execute has returned the fallback in JSON mode after the last answer of the
\* loop was a blank string and the synthesis follow-up gave nothing either.
C23_Witness ==
    /\ execution.pc = "done"
    /\ execution.responseFormat = "json"
    /\ execution.synthesisCalls = 1
    /\ execution.result.content = "fallback"
    /\ execution.result.finalContent.kind = "object"

\* C2: in every result tree run returns for a root request at depth 0, each
\* child step ran at its parent's depth plus exactly 1, and no step ran at a depth
\* greater than or equal to maxDepth.
C2_DepthPlusOne ==
    \A result \in Returned : result.depth = 0 => DepthsStep(result)

\* A returned tree of three levels: a delegated step that delegated in turn.
C2_Witness ==
    \E result \in Returned : result.depth = 0 /\ Height(result) = 3

RECURSIVE FanOutWithin(_)
\* In a result tree: no step honored, or has children for, more delegations than
\* the max fan-out in effect for it.
FanOutWithin(result) ==
    /\ Len(result.children) <= result.maxDelegations
    /\ Len(result.delegations) <= result.maxDelegations
    /\ \A i \in 1..Len(result.children) : FanOutWithin(result.children[i])

\* C3: for every step, the number of children in its result, and of honored
\* delegations, is at most the max fan-out in effect for that step.
C3_FanOut ==
    /\ \A result \in Returned : FanOutWithin(result)
    /\ \A r \in Runs : \A i \in 1..Len(rstack[r]) : FanOutWithin(ResultOf(rstack[r][i]))

\* A returned step that declared more delegations than its max fan-out and has
\* exactly that many children.
C3_Witness ==
    \E result \in Returned :
        /\ Len(result.children) = result.maxDelegations
        /\ result.maxDelegations = MaxFanOut
        /\ \E i \in 1..Len(result.notes) : result.notes[i].kind = "delegations skipped"

\* ------------------------------------------------------ claims: the store

\* A caller is inside withLock's critical section: fn has started and the
\* finally block has not yet released the key.
InCritical(c) == cpc[c] \in {"body", "write", "release"}

StoredLog(p) == readInternal(files[p])

EntryIds(log) == [i \in 1..Len(log) |-> log[i].id]

RECURSIVE WithoutMarkers(_)
WithoutMarkers(log) ==
    IF log = <<>> THEN <<>>
    ELSE IF Head(log).marker THEN WithoutMarkers(Tail(log))
    ELSE <<Head(log)>> \o WithoutMarkers(Tail(log))

\* C11: when the stored payload of a session is malformed JSON or valid JSON
\* that is no array, read returns the empty list and the prior content is kept
\* under a timestamped side name; an append never overwrites such content in
\* place without it having been preserved.
C11_PriorContentKept ==
    /\ \A c \in Callers :
         cpc[c] = "release" /\ cop[c].op = "read"
            /\ files[sessionPath(cop[c].key)].kind # "array"
         => cbuf[c] = <<>>
    /\ \A p \in Paths : overwritten[p] \subseteq sideFiles[p]

\* C6: for each conversation id, at most one store operation (read, append or
\* clear) is inside its critical section at any time.
C6_MutualExclusion ==
    \A k \in IdUniverse :
        Cardinality({c \in Callers : InCritical(c) /\ cop[c].key = k}) <= 1

\* C6 witness: a releasing holder has handed the key to a waiter that has not
\* resumed yet, the key counts as held, and another caller has queued behind.
C6_Witness ==
    \E c, d \in Callers :
        /\ cpc[c] = "woken"
        /\ cpc[d] = "queued"
        /\ cop[c].key = cop[d].key
        /\ cop[c].key \in held
        /\ ~\E e \in Callers : InCritical(e) /\ cop[e].key = cop[c].key

\* C7: while no append has evicted entries since the last clear, the stored log
\* holds exactly as many entries as appends were written: no append's
\* read-modify-write overwrites another's write.
C7_NoLostWrites ==
    \A p \in Paths : ~evicted[p] => Len(StoredLog(p)) = Len(written[p])

\* C7 witness: two appends on one id are written and stored, and a third append
\* on that id, issued while the lock was held, waits for its turn.
C7_Witness ==
    \E c \in Callers :
        /\ cpc[c] = "woken"
        /\ cop[c].op = "append"
        /\ ~evicted[sessionPath(cop[c].key)]
        /\ Len(written[sessionPath(cop[c].key)]) = 2
        /\ Len(StoredLog(sessionPath(cop[c].key))) = 2

\* C8: the entries of a stored log are in the order in which their append calls
\* were issued (entry ids are handed out in issue order).
C8_IssueOrder ==
    \A p \in Paths :
        LET stored == EntryIds(WithoutMarkers(StoredLog(p)))
        IN \A i, j \in 1..Len(stored) : i < j => stored[i] < stored[j]

\* C8 witness: three appends on one id were issued without awaiting each other
\* (the second and the third queued behind the first) and all are stored.
C8_Witness ==
    \E k \in ids :
        /\ Len(StoredLog(sessionPath(k))) = 3
        /\ issued[k] = EntryIds(StoredLog(sessionPath(k)))
        /\ \E c \in Callers :
              /\ cpc[c] = "release"
              /\ cop[c].key = k
              /\ cop[c].op = "append"

\* C9: a stored log is at most the byte ceiling long, or holds only one entry.
C9_SizeBound ==
    \A p \in Paths :
        files[p].kind = "array" =>
            \/ ByteLength(files[p].log) <= maxLogBytes
            \/ Len(files[p].log) = 1

\* C9 witness: an append that had to evict has returned, and the stored log
\* fits under the ceiling.
C9_Witness ==
    \E p \in Paths :
        /\ evicted[p]
        /\ Len(StoredLog(p)) > 1
        /\ StoredLog(p)[1].marker
        /\ ByteLength(StoredLog(p)) <= maxLogBytes

\* C10: the entries retained in a stored log are the most recently written ones
\* in their order, and the log holds at most one truncation marker, in front of
\* all retained entries.
C10_EvictOldest ==
    \A p \in Paths :
        LET log == StoredLog(p)
            kept == EntryIds(WithoutMarkers(log))
            n == Len(written[p])
        IN /\ Len(kept) <= n
           /\ kept = SubSeq(written[p], n - Len(kept) + 1, n)
           /\ \A i \in 1..Len(log) : log[i].marker => i = 1

\* C10 witness: an eviction dropped the oldest entry, and the marker stands in
\* front of the two retained entries.
C10_Witness ==
    \E p \in Paths :
        /\ Len(StoredLog(p)) = 3
        /\ StoredLog(p)[1].marker
        /\ Len(written[p]) = 3
        /\ EntryIds(WithoutMarkers(StoredLog(p))) = SubSeq(written[p], 2, 3)

LockOwned ==
    \A key \in held :
        \E c \in Callers :
            cop[c].key = key /\ cpc[c] \in {"woken", "body", "write", "release", "hung"}

\* C35: a body that fails still releases the lock of its id, so no key is left
\* held without an operation owning it; and as long as no body spins for ever,
\* every operation queued on an id eventually runs its body.
C35_ReleasedOnFailure ==
    /\ []LockOwned
    /\ ([](\A c \in Callers : cpc[c] # "hung"))
          => \A c \in Callers : (cpc[c] = "queued") ~> (cpc[c] = "body")

\* An append that was queued behind a body that failed is running its body.
C35_Witness ==
    \E c \in Callers :
        /\ cop[c].op = "append"
        /\ cop[c].entry.id \in stranded
        /\ cpc[c] = "body"

\* C25: an operation on one session id waits only for operations on the same id
\* (a queued caller always has a caller of its own key holding the lock), and
\* every operation on IdA completes, whatever the operations on IdB do and
\* although they may never finish.
InCriticalSection(c) == cpc[c] \in {"woken", "body", "write", "release", "hung"}

WaitsOnOwnKey ==
    \A c \in Callers :
        cpc[c] = "queued" =>
            /\ cop[c].key \in held
            /\ \E d \in Callers \ {c} : InCriticalSection(d) /\ cop[d].key = cop[c].key

C25_IndependentKeys ==
    /\ []WaitsOnOwnKey
    /\ \A c \in Callers : (cpc[c] # "idle" /\ cop[c].key = IdA) ~> (cpc[c] = "idle")

\* C26: a callTool call makes at most toolCallRetries + 1 attempts; every attempt
\* after the first follows an attempt that failed with a throttling error; an
\* error that is no throttling error is the last one caught and is the one thrown
\* to the caller; and before the k-th retry k times the base delay is awaited.
C26_RetryOnThrottling ==
    LET call == manager.call IN
    /\ call.attempts <= manager.toolCallRetries + 1
    /\ \A k \in 2..call.attempts : isThrottlingError(call.errors[k - 1])
    /\ \A i \in 1..Len(call.errors) :
          ~isThrottlingError(call.errors[i]) =>
              /\ i = Len(call.errors)
              /\ i = call.attempts
              /\ call.pc = "threw"
              /\ call.error = call.errors[i]
    /\ call.pc = "threw" /\ call.attempts > 0 =>
          /\ call.error = call.errors[Len(call.errors)]
          /\ Len(call.errors) = call.attempts
    /\ Len(call.waits) = call.attempt
    /\ call.attempts = call.attempt + (IF call.pc = "delay" THEN 0 ELSE 1)
          \/ call.attempts = 0
    /\ \A k \in 1..Len(call.waits) : call.waits[k] = k * manager.toolCallRetryDelayMs

\* Two retries were made after throttling errors, with the delays 2 and 4, and
\* the third throttling error was thrown to the caller.
C26_Witness ==
    /\ manager.toolCallRetries = MaxToolCallRetries
    /\ manager.toolCallRetryDelayMs = RetryDelayMs
    /\ manager.call.pc = "threw"
    /\ manager.call.attempts = MaxToolCallRetries + 1
    /\ manager.call.waits = [k \in 1..MaxToolCallRetries |-> k * RetryDelayMs]
    /\ manager.call.error = "HTTP 429"

C28_FreshUnion ==
    manager.refresh.pc = "done" =>
        toolsByCanonical =
            UNION {manager.refresh.fresh[server] :
                     server \in {sv \in Servers : manager.refresh.listed[sv] = "ok"}}

\* C29: once every applyFeedback call issued has settled, the persisted
\* history holds one entry for each call, in the order the calls were issued,
\* and the persisted overrides are those of applying the inputs in that order.
RECURSIVE ApplyAll(_, _)
ApplyAll(overrides, inputs) ==
    IF inputs = <<>> THEN overrides
    ELSE ApplyAll(applyFeedback(overrides, Head(inputs).role, Head(inputs).toolName,
                                Head(inputs).action, Head(inputs).level),
                  Tail(inputs))

Persisted == readFeedback(feedback.file)

ListInputs ==
    {FeedbackInput(role, toolName, action, "unset") :
        role \in FeedbackRoles, toolName \in FeedbackNames,
        action \in {"allow", "deny", "clear"}}

NextLists ==
    \/ \E c \in FeedbackCallers, input \in ListInputs : ApplyFeedback(c, input)
    \/ \E c \in FeedbackCallers : FeedbackBody(c)
    \/ \E c \in FeedbackCallers : FeedbackWritten(c)
    \/ \E c \in FeedbackCallers : FeedbackReturned(c)

SpecLists == InitReg /\ [][NextLists]_vars

\* No pattern is in the allow list and in the deny list of one role.
Disjoint(overrides) ==
    \A role \in Roles : overrides.allow[role] \cap overrides.deny[role] = {}

\* What the input did to the lists: after is what applyFeedback made of before.
ListsChanged(input, before, after) ==
    /\ input.action = "allow" =>
          /\ input.toolName \in after.allow[input.role]
          /\ input.toolName \notin after.deny[input.role]
    /\ input.action = "deny" =>
          /\ input.toolName \in after.deny[input.role]
          /\ input.toolName \notin after.allow[input.role]
    /\ input.action = "clear" =>
          /\ input.toolName \notin after.allow[input.role]
          /\ input.toolName \notin after.deny[input.role]
    /\ \A role \in Roles \ {input.role} :
          /\ after.allow[role] = before.allow[role]
          /\ after.deny[role] = before.deny[role]

\* C40: from the empty overrides on, the persisted allow and deny lists of a
\* role share no pattern, nor do those an applyFeedback call is about to write;
\* and the call's lists are those it read with the pattern allowed and not
\* denied (allow), denied and not allowed (deny) or in neither list (clear),
\* the lists of the other roles being as they were.
C40_AllowDenyDisjoint ==
    /\ Disjoint(Persisted.overrides)
    /\ \A c \in FeedbackCallers :
          feedback.calls[c].pc = "writing" =>
              /\ Disjoint(feedback.calls[c].state.overrides)
              /\ ListsChanged(feedback.calls[c].input, Persisted.overrides,
                              feedback.calls[c].state.overrides)

\* A call that allows a pattern the role's persisted deny list holds, while the
\* other role has a list that is not empty, is about to write.
C40_Witness ==
    \E c \in FeedbackCallers :
        LET input == feedback.calls[c].input
        IN /\ feedback.calls[c].pc = "writing"
           /\ input.action = "allow"
           /\ input.toolName \in Persisted.overrides.deny[input.role]
           /\ \E role \in Roles \ {input.role} : Persisted.overrides.deny[role] # {}

\* C30: no append call stays in its eviction loop for ever: whatever the log
\* read and the entry pushed, the loop ends and the append goes on to write.
C30_AppendTerminates == \A c \in Callers : cpc[c] # "hung"

\* C33: when execute returns lastContent, it is the content of the answer to
\* the last backend call of the loop, never that of an earlier answer.
C33_LastAnswerReturned ==
    execution.pc = "done" /\ execution.result.content = "lastContent"
        => execution.lastFresh

\* C36: an assistant message records at most maxToolCallsPerIteration tool
\* calls, the first ones of the answer; no more tools are run in an iteration
\* than that; the tool messages answer the recorded calls one for one, in order
\* and with their ids; and when the backend is called again every recorded
\* call has its tool message, each assistant message being followed by the
\* tool messages of its own calls.
RECURSIVE Shape(_)
Shape(callIds) ==
    IF callIds = <<>> THEN <<>>
    ELSE (IF Head(callIds)[2] = 1 THEN <<"assistant", "tool">> ELSE <<"tool">>)
         \o Shape(Tail(callIds))

MessageKinds ==
    [i \in 1..Len(execution.messages) |->
        IF execution.messages[i] = "assistant" THEN "assistant" ELSE "tool"]

C36_ExcessDropped ==
    LET e == execution IN
    /\ \A i \in 1..Len(e.recorded) : e.recorded[i][2] <= e.maxToolCallsPerIteration
    /\ e.toolCalls <= e.maxToolCallsPerIteration
    /\ e.executed <= Len(e.recorded)
    /\ Len(e.answered) <= Len(e.recorded)
    /\ e.answered = SubSeq(e.recorded, 1, Len(e.answered))
    /\ Len(e.recorded) = Len(e.answered) + Len(e.batch)
    /\ Len(e.answered) = Len(e.toolCallHistory)
    /\ e.pc \in {"backend", "synthesis", "done"} =>
          /\ e.answered = e.recorded
          /\ MessageKinds = Shape(e.recorded)

\* The backend asked for three tool calls in one answer under a cap of two: two
\* are recorded and answered, and the backend has been called again.
C36_Witness ==
    /\ execution.maxToolCallsPerIteration = 2
    /\ execution.pc = "backend"
    /\ execution.llmCalls = 2
    /\ execution.recorded = <<<<1, 1>>, <<1, 2>>>>
    /\ execution.answered = execution.recorded
    /\ execution.messages = <<"assistant", "result", "Error:">>
    /\ execution.executed = 2


\* One request at a time on one session, of a planner that may delegate or a
\* subagent; the subagents' answers come from the executor, with a history of
\* tool calls, or from the direct call; the entries are logged with their meta.
LogRequests == {Request("planner", 0, 2, MaxFanOut), Request("code", 0, 1, 1)}

NextLog ==
    \/ \E r \in slots, sid \in ids, request \in requests : StartRun(r, sid, request)
    \/ \E r \in slots : ReadSessionLog(r)
    \/ \E r \in slots : LogRequestAs(r, RequestEntry(Top(r)))
    \/ \E r \in slots, toolCallHistory \in 0..MaxToolCallsPerIteration :
            ExecutorReturns(r, toolCallHistory)
    \/ \E r \in slots : LogToolCall(r)
    \/ \E r \in slots, raw \in answers : ExecutorAnswer(r, raw)
    \/ \E r \in slots, raw \in answers : Answer(r, raw, FALSE)
    \/ \E r \in slots, raw \in reformats, threw \in BOOLEAN : RetryAnswer(r, raw, threw)
    \/ \E r \in slots : LogResponseAs(r, ResponseEntry(Top(r)))
    \/ \E r \in slots : Respond(r)

InitLog ==
    /\ InitStoreWith({IdA}, UniformSizes, OrchLogBytes)
    /\ InitOrchestrator({1}, LogRequests, OrchAnswers, {NotJson})
    /\ InitRegistry
    /\ InitExecutor({1}, {1})

SpecLog == InitLog /\ [][NextLog]_vars

\* The entries a step and its children log, from its result: the request
\* entry, the tool-call entries, the children's entries in the order of the
\* delegations, the response entry.
RECURSIVE EntriesOf(_)
RECURSIVE EntriesOfAll(_)
EntriesOf(result) ==
    <<RequestEntry(result)>>
    \o [i \in 1..result.toolCallHistory |-> ToolCallEntry(result)]
    \o EntriesOfAll(result.children)
    \o <<ResponseEntry(result)>>

EntriesOfAll(children) ==
    IF children = <<>> THEN <<>>
    ELSE EntriesOf(Head(children)) \o EntriesOfAll(Tail(children))

\* The log of the session run r works on.
SessionLog(r) == readInternal(files[sessionPath(rsid[r])])

\* The log holds the entries of one top-level run and no truncation marker.
OneRunLogged(log) ==
    /\ \A i \in 1..Len(log) : ~log[i].marker
    /\ Cardinality({i \in 1..Len(log) : log[i].type = "request" /\ log[i].depth = 0}) = 1

\* Every request entry has a later response entry of its depth.
Answered(log) ==
    \A i \in 1..Len(log) :
        log[i].type = "request" =>
            \E j \in (i + 1)..Len(log) :
                log[j].type = "response" /\ log[j].depth = log[i].depth

\* C37: when a top-level run has returned and the session log holds nothing but
\* what it logged, untruncated, the log is the step's request entry, its
\* tool-call entries, the whole sequences of its children in the order they
\* were declared, and its response entry; and every request entry in it has a
\* later response entry of the same depth.
C37_LogOrder ==
    \A r \in Runs :
        (rstatus[r] = "returned" /\ OneRunLogged(SessionLog(r))) =>
            /\ SessionLog(r) = EntriesOf(rresult[r])
            /\ Answered(SessionLog(r))

\* A planner's run has returned with two children, one of which had tool calls
\* to log, and the log holds nothing else.
C37_Witness ==
    \E r \in Runs :
        /\ rstatus[r] = "returned"
        /\ OneRunLogged(SessionLog(r))
        /\ Len(rresult[r].children) = 2
        /\ \E i \in 1..2 : rresult[r].children[i].toolCallHistory > 0

====
